---- MODULE Spec2Model ----
(***************************************************************************)
(* Model of the google-workspace-mcp tool dispatcher: the call-tool        *)
(* request handler (index.ts), the tool router and its handlers            *)
(* (tools/handlers.ts), the credential cache and the authentication        *)
(* module (auth.ts, kept in utils.ts here), and the input validator        *)
(* (schemas.ts).                                                           *)
(*                                                                         *)
(* Conventions.                                                            *)
(*  - Node runs every handler on one thread; control changes hands only    *)
(*    at an await.  An action is the code a call runs between two awaits   *)
(*    at which the shared cache, the files or the callback port can be     *)
(*    read or written by somebody else.  A continuation that touches only  *)
(*    the call's locals (input validation, the formatting of a reply, the  *)
(*    catch clauses that turn an exception into an envelope) is taken in   *)
(*    the step that precedes it.                                           *)
(*  - TLA+ strings are ASCII: the source's leading emoji are written       *)
(*    "[X] " (cross mark), "[OK] " (check mark) and "[!] " (warning).      *)
(***************************************************************************)
EXTENDS Integers, Sequences, FiniteSets, TLC

(***************************************************************************)
(* Strings                                                                 *)
(***************************************************************************)

\* s contains sub as a contiguous substring
Contains(s, sub) ==
  \E i \in 1..(Len(s) - Len(sub) + 1) : SubSeq(s, i, i + Len(sub) - 1) = sub

\* s starts with pre
StartsWith(s, pre) ==
  Len(s) >= Len(pre) /\ SubSeq(s, 1, Len(pre)) = pre

RECURSIVE Join(_, _)
\* Array.prototype.join over a sequence of strings
Join(parts, sep) ==
  IF Len(parts) = 0 THEN ""
  ELSE IF Len(parts) = 1 THEN parts[1]
  ELSE parts[1] \o sep \o Join(Tail(parts), sep)

(***************************************************************************)
(* Untyped argument values (the `unknown` a request carries)               *)
(***************************************************************************)

Str(s) == [t |-> "string", v |-> s]
Num(n) == [t |-> "number", n |-> n]
Bool(b) == [t |-> "boolean", b |-> b]
Arr(a) == [t |-> "array", a |-> a]

\* an argument mapping with no key
EmptyFields == [k \in {} |-> Str("")]

\* request.params.arguments: a mapping of keys to values, or left out
Args(fields) == [given |-> TRUE, fields |-> fields]
NoArgs == [given |-> FALSE, fields |-> EmptyFields]

(***************************************************************************)
(* schemas.ts: the per-tool input schemas                                  *)
(***************************************************************************)

\* z.string().min(1, msg)
ReqStr(name, msg) ==
  [name |-> name, kind |-> "string", optional |-> FALSE, nonEmpty |-> TRUE,
   email |-> FALSE, lo |-> 0, hi |-> 0, msg |-> msg, hasDefault |-> FALSE,
   default |-> Str("")]
\* z.string()
AnyStr(name) ==
  [ReqStr(name, "") EXCEPT !.nonEmpty = FALSE]
\* z.string().optional()
OptStr(name) ==
  [ReqStr(name, "") EXCEPT !.optional = TRUE, !.nonEmpty = FALSE]
\* z.string().optional().default(d)
DefStr(name, d) ==
  [OptStr(name) EXCEPT !.hasDefault = TRUE, !.default = Str(d)]
\* z.string().email(msg)
Email(name, msg) ==
  [ReqStr(name, msg) EXCEPT !.nonEmpty = FALSE, !.email = TRUE]
\* z.number().int().min(lo).max(hi).optional().default(d)
DefInt(name, lo, hi, d) ==
  [name |-> name, kind |-> "number", optional |-> TRUE, nonEmpty |-> FALSE,
   email |-> FALSE, lo |-> lo, hi |-> hi, msg |-> "", hasDefault |-> TRUE,
   default |-> Num(d)]
\* z.boolean().optional().default(d)
DefBool(name, d) ==
  [name |-> name, kind |-> "boolean", optional |-> TRUE, nonEmpty |-> FALSE,
   email |-> FALSE, lo |-> 0, hi |-> 0, msg |-> "", hasDefault |-> TRUE,
   default |-> Bool(d)]
\* z.array(z.string().email()).optional()
OptEmails(name) ==
  [name |-> name, kind |-> "array", optional |-> TRUE, nonEmpty |-> FALSE,
   email |-> TRUE, lo |-> 0, hi |-> 0, msg |-> "Invalid email",
   hasDefault |-> FALSE, default |-> Arr(<<>>)]

ListConferencesSchema == << DefInt("limit", 1, 100, 10) >>
GetConferenceSchema == << ReqStr("name", "Conference name is required") >>
ConferenceNameSchema ==
  << ReqStr("conference_name", "Conference name is required") >>
TranscriptNameSchema ==
  << ReqStr("transcript_name", "Transcript name is required") >>
ListMeetingsSchema == << DefInt("limit", 1, 100, 10) >>
\* a Mail listing schema with the Meet listings' maximum
ListEmailsSchema_Max100 == << DefInt("limit", 1, 100, 10) >>
ListEmailsSchema == << DefInt("limit", 1, 50, 10) >>
SearchEmailsSchema ==
  << ReqStr("query", "Search query is required"), DefInt("limit", 1, 50, 10) >>
GetEmailSchema == << ReqStr("message_id", "Message ID is required") >>
GetThreadSchema == << ReqStr("thread_id", "Thread ID is required") >>
SendEmailSchema ==
  << Email("to", "Valid email address required"),
     ReqStr("subject", "Subject is required"),
     ReqStr("body", "Email body is required"),
     OptStr("cc"), OptStr("bcc") >>
TrashEmailSchema == << ReqStr("message_id", "Message ID is required") >>
MarkEmailSchema == << ReqStr("message_id", "Message ID is required") >>
ListDocsSchema == << DefInt("limit", 1, 50, 10) >>
SearchDocsSchema ==
  << ReqStr("query", "Search query is required"), DefInt("limit", 1, 50, 10) >>
GetDocSchema == << ReqStr("document_id", "Document ID is required") >>
CreateDocSchema ==
  << ReqStr("title", "Document title is required"), OptStr("content") >>
AppendToDocSchema ==
  << ReqStr("document_id", "Document ID is required"),
     ReqStr("text", "Text to append is required") >>
ReplaceInDocSchema ==
  << ReqStr("document_id", "Document ID is required"),
     ReqStr("search_text", "Search text is required"),
     AnyStr("replace_text"),
     DefBool("match_case", FALSE) >>
CreateCalendarEventSchema ==
  << ReqStr("summary", "Event title is required"),
     OptStr("description"),
     ReqStr("start_time",
            "Start time is required (e.g., '2024-01-30 14:00' or ISO format)"),
     OptStr("end_time"),
     DefInt("duration_minutes", 5, 480, 60),
     OptEmails("attendees"),
     OptStr("location"),
     DefStr("timezone", "Asia/Kolkata"),
     DefBool("add_meet_link", TRUE) >>

(***************************************************************************)
(* schemas.ts: validateInput, with the checks zod's safeParse makes        *)
(***************************************************************************)

\* the strings z.string().email() accepts, among the sample strings
IsEmail(s) == s \in {"user@example.com", "team@example.org"}

\* the issues zod raises for one key of a z.object, as <<path, message>>
FieldIssues(f, fields) ==
  IF f.name \notin DOMAIN fields
    THEN IF f.optional THEN <<>> ELSE << <<f.name, "Required">> >>
  ELSE LET x == fields[f.name] IN
    IF x.t # f.kind
      THEN << <<f.name, "Expected " \o f.kind \o ", received " \o x.t>> >>
    ELSE IF f.kind = "string"
      THEN IF (f.nonEmpty /\ Len(x.v) < 1) \/ (f.email /\ ~IsEmail(x.v))
             THEN << <<f.name, f.msg>> >>
             ELSE <<>>
    ELSE IF f.kind = "number"
      THEN IF x.n < f.lo
             THEN << <<f.name, "Number must be greater than or equal to "
                               \o ToString(f.lo)>> >>
           ELSE IF x.n > f.hi
             THEN << <<f.name, "Number must be less than or equal to "
                               \o ToString(f.hi)>> >>
           ELSE <<>>
    ELSE IF f.kind = "array"
      THEN LET bad == SelectSeq([i \in 1..Len(x.a) |->
                                  [ix |-> i, ok |-> IsEmail(x.a[i])]],
                                LAMBDA e : ~e.ok)
           IN [i \in 1..Len(bad) |->
                <<f.name \o "." \o ToString(bad[i].ix - 1), f.msg>>]
    ELSE <<>>

RECURSIVE SchemaIssues(_, _)
\* result.error.errors of schema.safeParse(input), in the schema's key order
SchemaIssues(schema, fields) ==
  IF Len(schema) = 0 THEN <<>>
  ELSE FieldIssues(Head(schema), fields) \o SchemaIssues(Tail(schema), fields)

\* safeParse of a z.object: a value that is no mapping fails at the root path
ParseIssues(schema, args) ==
  IF ~args.given THEN << <<"", "Required">> >>
  ELSE SchemaIssues(schema, args.fields)

\* result.data: the schema's keys, with the defaults filled in
ParsedData(schema, args) ==
  LET names == {schema[i].name : i \in 1..Len(schema)}
      spec(n) == CHOOSE f \in {schema[i] : i \in 1..Len(schema)} : f.name = n
      kept == {n \in names : n \in DOMAIN args.fields \/ spec(n).hasDefault}
  IN [n \in kept |->
       IF n \in DOMAIN args.fields THEN args.fields[n] ELSE spec(n).default]

\* a validator that reports the first issue only
ErrorText_FirstOnly(issues) ==
  issues[1][1] \o ": " \o issues[1][2]

\* errors.map(e => `${e.path.join(".")}: ${e.message}`).join(", ")
ErrorText(issues) ==
  Join([i \in 1..Len(issues) |-> issues[i][1] \o ": " \o issues[i][2]], ", ")

\* validateInput: the data, or the Error it throws
validateInput(schema, args) ==
  LET issues == ParseIssues(schema, args) IN
    IF Len(issues) > 0
      THEN [ok |-> FALSE, data |-> EmptyFields,
            message |-> "Invalid input: " \o ErrorText(issues)]
      ELSE [ok |-> TRUE, data |-> ParsedData(schema, args), message |-> ""]

(***************************************************************************)
(* utils.ts: the response envelopes                                        *)
(***************************************************************************)

\* createErrorResponse that drops the diagnostic segment
createErrorResponse_NoContent(message) ==
  [content |-> <<>>, isError |-> TRUE]

createErrorResponse(message) ==
  [content |-> << [type |-> "text", text |-> message] >>, isError |-> TRUE]

\* the source's success envelope has no isError key: the flag is not set
createSuccessResponse(text) ==
  [content |-> << [type |-> "text", text |-> text] >>, isError |-> FALSE]

NOT_AUTHENTICATED_RESPONSE ==
  createErrorResponse(
    "[X] Not authenticated. Please use the 'authenticate' tool first.")

\* no envelope yet: the request is still being served
NoResponse == [content |-> <<>>, isError |-> FALSE]

(***************************************************************************)
(* tools/handlers.ts: what each case of the router's switch runs           *)
(*   domain  the wrapper the handler runs under                            *)
(*   schema  the schema it validates its arguments against, if any         *)
(*   ops     the service-client methods it awaits, in order, each named    *)
(*           by the text of its "Failed to ...: " wrapper                  *)
(*   okText  the fixed head of the success text it formats                 *)
(***************************************************************************)

H(domain, validates, schema, ops, okText) ==
  [domain |-> domain, validates |-> validates, schema |-> schema,
   ops |-> ops, okText |-> okText]

Handler(name) ==
  CASE name = "auth_status" -> H("auth_status", FALSE, <<>>, <<>>, "")
    [] name = "authenticate" -> H("authenticate", FALSE, <<>>, <<>>,
         "[OK] Successfully authenticated with Google!")
    [] name = "list_conferences" -> H("meet", TRUE, ListConferencesSchema,
         <<"list conference records">>, "**Recent Conference Records:**")
    [] name = "get_conference" -> H("meet", TRUE, GetConferenceSchema,
         <<"get conference record">>, "**Conference Details:**")
    [] name = "list_participants" -> H("meet", TRUE, ConferenceNameSchema,
         <<"list participants">>, "**Participants")
    [] name = "list_recordings" -> H("meet", TRUE, ConferenceNameSchema,
         <<"list recordings">>, "**Recordings:**")
    [] name = "list_transcripts" -> H("meet", TRUE, ConferenceNameSchema,
         <<"list transcripts">>, "**Transcripts:**")
    [] name = "get_transcript_text" -> H("meet", TRUE, TranscriptNameSchema,
         <<"list transcript entries">>, "**Transcript:**")
    [] name = "create_meeting" -> H("meet", FALSE, <<>>,
         <<"create meeting space">>, "[OK] **Meeting Created!**")
    [] name = "list_upcoming_meetings" -> H("meet", TRUE, ListMeetingsSchema,
         <<"list upcoming meetings">>, "**Upcoming Google Meet Meetings:**")
    [] name = "list_past_meetings" -> H("meet", TRUE, ListMeetingsSchema,
         <<"list past meetings">>,
         "**Past Google Meet Meetings (Last 30 Days):**")
    [] name = "summarize_transcript" -> H("meet", TRUE, TranscriptNameSchema,
         <<"list transcript entries">>,
         "Here is the meeting transcript to summarize:")
    [] name = "create_calendar_event" ->
         H("meet", TRUE, CreateCalendarEventSchema,
           <<"create calendar event">>, "[OK] **Calendar Event Created!**")
    [] name = "gmail_profile" -> H("gmail", FALSE, <<>>,
         <<"get Gmail profile">>, "**Gmail Profile:**")
    [] name = "list_emails" -> H("gmail", TRUE, ListEmailsSchema,
         <<"list messages">>, "**Inbox")
    [] name = "search_emails" -> H("gmail", TRUE, SearchEmailsSchema,
         <<"list messages">>, "**Search Results for")
    [] name = "get_email" -> H("gmail", TRUE, GetEmailSchema,
         <<"get message">>, "**Email Details:**")
    [] name = "get_thread" -> H("gmail", TRUE, GetThreadSchema,
         <<"get thread">>, "**Thread:")
    [] name = "send_email" -> H("gmail", TRUE, SendEmailSchema,
         <<"send email">>, "[OK] **Email Sent Successfully!**")
    [] name = "create_draft" -> H("gmail", TRUE, SendEmailSchema,
         <<"create draft">>, "[OK] **Draft Created Successfully!**")
    [] name = "list_labels" -> H("gmail", FALSE, <<>>,
         <<"list labels">>, "**Gmail Labels:**")
    [] name = "trash_email" -> H("gmail", TRUE, TrashEmailSchema,
         <<"trash message">>, "[OK] Email moved to trash:")
    [] name = "mark_as_read" -> H("gmail", TRUE, MarkEmailSchema,
         <<"mark message as read">>, "[OK] Email marked as read:")
    [] name = "mark_as_unread" -> H("gmail", TRUE, MarkEmailSchema,
         <<"mark message as unread">>, "[OK] Email marked as unread:")
    [] name = "list_docs" -> H("docs", TRUE, ListDocsSchema,
         <<"list documents">>, "**Recent Google Docs")
    [] name = "search_docs" -> H("docs", TRUE, SearchDocsSchema,
         <<"search documents">>, "**Search Results for")
    [] name = "get_doc" -> H("docs", TRUE, GetDocSchema,
         <<"get document", "get document text">>, "**Document:")
    [] name = "create_doc" -> H("docs", TRUE, CreateDocSchema,
         <<"create document">>, "[OK] **Document Created!**")
    [] name = "append_to_doc" -> H("docs", TRUE, AppendToDocSchema,
         <<"append text">>, "[OK] Text appended to document!")
    [] name = "replace_in_doc" -> H("docs", TRUE, ReplaceInDocSchema,
         <<"replace text">>, "[OK] Text replaced in document!")
    [] OTHER -> H("unknown", FALSE, <<>>, <<>>, "")

(***************************************************************************)
(* tools/definitions: the catalog `list tools` returns, in its order       *)
(***************************************************************************)

\* handlers.ts handleToolCall: the case labels of the router's switch, in
\* its order
cases ==
  << "auth_status", "authenticate", "list_conferences", "get_conference",
     "list_participants", "list_recordings", "list_transcripts",
     "get_transcript_text", "create_meeting", "list_upcoming_meetings",
     "list_past_meetings", "summarize_transcript", "create_calendar_event",
     "gmail_profile", "list_emails", "search_emails", "get_email",
     "get_thread", "send_email", "create_draft", "list_labels",
     "trash_email", "mark_as_read", "mark_as_unread", "list_docs",
     "search_docs", "get_doc", "create_doc", "append_to_doc",
     "replace_in_doc" >>

\* a catalog that lists append_to_doc twice and replace_in_doc not at all
tools_AppendTwice ==
  << "auth_status", "authenticate", "list_conferences", "get_conference",
     "list_participants", "list_recordings", "list_transcripts",
     "get_transcript_text", "create_meeting", "list_upcoming_meetings",
     "list_past_meetings", "summarize_transcript", "create_calendar_event",
     "gmail_profile", "list_emails", "search_emails", "get_email",
     "get_thread", "send_email", "create_draft", "list_labels",
     "trash_email", "mark_as_read", "mark_as_unread", "list_docs",
     "search_docs", "get_doc", "create_doc", "append_to_doc",
     "append_to_doc" >>

tools ==
  << "auth_status", "authenticate", "list_conferences", "get_conference",
     "list_participants", "list_recordings", "list_transcripts",
     "get_transcript_text", "create_meeting", "list_upcoming_meetings",
     "list_past_meetings", "summarize_transcript", "create_calendar_event",
     "gmail_profile", "list_emails", "search_emails", "get_email",
     "get_thread", "send_email", "create_draft", "list_labels",
     "trash_email", "mark_as_read", "mark_as_unread", "list_docs",
     "search_docs", "get_doc", "create_doc", "append_to_doc",
     "replace_in_doc" >>

ToolNames == {tools[i] : i \in 1..Len(tools)}

(***************************************************************************)
(* Bounds and the requests the model draws                                 *)
(***************************************************************************)

\* tool calls a behaviour holds, finished ones included
MaxCalls == 2

\* events in an upstream calendar response
MaxItems == 3

\* names a client may send that the router does not know
UnknownNames == {"delete_everything", ""}

\* a value of the kind a key wants that its schema accepts
GoodValue(f) ==
  CASE f.kind = "number" -> Num(f.lo)
    [] f.kind = "boolean" -> Bool(TRUE)
    [] f.kind = "array" -> Arr(<<"user@example.com">>)
    [] f.email -> Str("user@example.com")
    [] OTHER -> Str("2026-01-30 14:00")

\* a value its schema refuses: out of range, empty, no address, wrong type
BadValue(f) ==
  CASE f.kind = "number" -> Num(f.hi + 1)
    [] f.kind = "boolean" -> Str("yes")
    [] f.kind = "array" -> Arr(<<"user@example.com", "not-an-email">>)
    [] f.email -> Str("not-an-email")
    [] f.nonEmpty -> Str("")
    [] OTHER -> Num(7)

\* the arguments drawn for a tool: the required keys alone with good values,
\* every key with a good value, and every key with a refused value
ArgSamples(name) ==
  LET schema == Handler(name).schema
      all == {schema[i] : i \in 1..Len(schema)}
      byName(n) == CHOOSE f \in all : f.name = n
      required == {f.name : f \in {g \in all : ~g.optional}}
  IN IF ~Handler(name).validates THEN {Args(EmptyFields)}
     ELSE { Args([n \in required |-> GoodValue(byName(n))]),
            Args([n \in {f.name : f \in all} |-> GoodValue(byName(n))]),
            Args([n \in {f.name : f \in all} |-> BadValue(byName(n))]) }

Requests ==
  {[name |-> n, args |-> Args(EmptyFields)] : n \in UnknownNames}
  \cup UNION {{[name |-> n, args |-> a] : a \in ArgSamples(n)} : n \in ToolNames}

(***************************************************************************)
(* State                                                                   *)
(***************************************************************************)

VARIABLES
  credentialsFile,  \* the file at config.credentialsPath
  tokenFile,        \* the file at config.tokenPath
  authInstance,     \* handlers.ts: the cached credential, 0 for null
  meetService,      \* handlers.ts: the cached clients, NoService for null
  gmailService,
  docsService,
  nextId,           \* the next object identity `new` hands out
  calls,            \* the call-tool requests received so far
  servers,          \* the callback listeners startLocalServer has made
  crashed,          \* the process died of an unhandled 'error' event
  document          \* upstream: the body text of the document AnyDocumentId

vars ==
  << credentialsFile, tokenFile, authInstance, meetService, gmailService,
     docsService, nextId, calls, servers, crashed, document >>

\* a service client: its own identity and the credential it was built with
Service(id, auth) == [id |-> id, auth |-> auth]
NoService == Service(0, 0)

\* what an await of authenticate() is waiting on
NoAwait == [k |-> "none", cred |-> 0, msg |-> "", srv |-> 0]
Resolved(cred) == [NoAwait EXCEPT !.k = "value", !.cred = cred]
Rejected(msg) == [NoAwait EXCEPT !.k = "error", !.msg = msg]
Pending(srv) == [NoAwait EXCEPT !.k = "server", !.srv = srv]

\* how a function call ends: with a value, or with a thrown Error
Return(value) == [threw |-> FALSE, message |-> "", value |-> value]
Throw(message) == [threw |-> TRUE, message |-> message, value |-> NoResponse]

(***************************************************************************)
(* utils.ts (auth): the credential sources                                 *)
(*   credentialsFile: "none", "unparseable" (no JSON), "service_account",  *)
(*     "oauth" (installed or web key), "oauth_nokey" (JSON with neither)   *)
(*   tokenFile: "none", "unparseable", "valid"                             *)
(***************************************************************************)

CredentialFiles ==
  {"none", "unparseable", "service_account", "oauth", "oauth_nokey"}
TokenFiles == {"none", "unparseable", "valid"}

CredentialsNotFound == "credentials.json not found at credentials.json"
JsonSyntaxError == "Unexpected token in JSON at position 0"
InvalidOAuthFormat == "Invalid OAuth credentials format"
InvalidGrant == "invalid_grant"
UpstreamDetail == "Request failed with status code 500"

getCredentialType(file) ==
  IF file = "service_account" THEN "service_account" ELSE "oauth"

\* a loadSavedToken that never finds the saved token
loadSavedToken_Never == "null"

\* null when the file is missing or JSON.parse throws (caught and logged)
loadSavedToken == IF tokenFile = "valid" THEN "token" ELSE "null"

\* isAuthenticated that does not look for the token file
isAuthenticated_IgnoresToken ==
  credentialsFile \notin {"none", "unparseable"}

isAuthenticated ==
  IF credentialsFile = "none" THEN FALSE
  ELSE IF credentialsFile = "unparseable" THEN FALSE
  ELSE IF getCredentialType(credentialsFile) = "service_account" THEN TRUE
  ELSE tokenFile # "none"

getAuthStatus ==
  IF credentialsFile = "none"
    THEN "[X] No credentials found. Please add credentials.json to the project root."
  ELSE IF credentialsFile = "unparseable"
    THEN "[X] Error reading credentials file."
  ELSE IF getCredentialType(credentialsFile) = "service_account"
    THEN "[OK] Service Account configured: svc@project.iam.gserviceaccount.com"
  ELSE IF tokenFile # "none"
    THEN "[OK] Authenticated with Google (OAuth)"
  ELSE "[!] OAuth credentials found but not authenticated. Use the 'authenticate' tool to sign in."

\* a callback listener and the promise authenticateOAuth returned with it
\*   bound      server.listen got config.oauthPort
\*   listening  it holds the port still (no server.close() yet)
\*   settled    "pending", "resolved" or "rejected": the promise
\*   client     the OAuth2 client the promise resolves with
Server(client, bound) ==
  [bound |-> bound, listening |-> bound, settled |-> "pending",
   client |-> client]

PortInUse == \E i \in 1..Len(servers) : servers[i].listening

\* authenticateOAuth up to the promise it returns: the saved token, or the
\* interactive flow (URL printed, listener made, server.listen called)
authenticateOAuth ==
  IF loadSavedToken # "null"
    THEN [out |-> Resolved(nextId), nextId |-> nextId + 1,
          servers |-> servers, crashed |-> FALSE]
  ELSE IF credentialsFile # "oauth"
    THEN [out |-> Rejected(InvalidOAuthFormat), nextId |-> nextId,
          servers |-> servers, crashed |-> FALSE]
  ELSE [out |-> Pending(Len(servers) + 1), nextId |-> nextId + 1,
        servers |-> Append(servers, Server(nextId, ~PortInUse)),
        \* listen on a port in use: 'error' is emitted, nobody handles it
        crashed |-> PortInUse]

\* authenticate() up to the promise it returns
authenticate ==
  IF credentialsFile = "none"
    THEN [out |-> Rejected(CredentialsNotFound), nextId |-> nextId,
          servers |-> servers, crashed |-> FALSE]
  ELSE IF credentialsFile = "unparseable"
    THEN [out |-> Rejected(JsonSyntaxError), nextId |-> nextId,
          servers |-> servers, crashed |-> FALSE]
  ELSE IF getCredentialType(credentialsFile) = "service_account"
    THEN [out |-> Resolved(nextId), nextId |-> nextId + 1,
          servers |-> servers, crashed |-> FALSE]
  ELSE authenticateOAuth

(***************************************************************************)
(* meet-api.ts: the start and the end of a calendar event                  *)
(***************************************************************************)

IsDigit(c) == c \in {"0", "1", "2", "3", "4", "5", "6", "7", "8", "9"}

DigitValue(c) ==
  CASE c = "0" -> 0 [] c = "1" -> 1 [] c = "2" -> 2 [] c = "3" -> 3
    [] c = "4" -> 4 [] c = "5" -> 5 [] c = "6" -> 6 [] c = "7" -> 7
    [] c = "8" -> 8 [] c = "9" -> 9

\* \d+ matches the whole of s
AllDigits(s) ==
  Len(s) > 0 /\ \A i \in 1..Len(s) : IsDigit(SubSeq(s, i, i))

RECURSIVE parseInt(_)
\* parseInt(s, 10) of a string of digits
parseInt(s) ==
  IF Len(s) = 0 THEN 0
  ELSE parseInt(SubSeq(s, 1, Len(s) - 1)) * 10 + DigitValue(SubSeq(s, Len(s), Len(s)))

\* Number(s) of a string: a string of digits is its value, the empty string
\* is 0, any other string of the inputs drawn here is NaN
ToNumber(s) ==
  IF Len(s) = 0 THEN [nan |-> FALSE, n |-> 0]
  ELSE IF AllDigits(s) THEN [nan |-> FALSE, n |-> parseInt(s)]
  ELSE [nan |-> TRUE, n |-> 0]

\* n.toString().padStart(2, "0")
padStart2(n) == IF n < 10 THEN "0" \o ToString(n) ELSE ToString(n)

\* the first position of the character c in s, 0 when there is none
IndexOf(s, c) ==
  IF \E i \in 1..Len(s) : SubSeq(s, i, i) = c
    THEN CHOOSE i \in 1..Len(s) :
           /\ SubSeq(s, i, i) = c
           /\ \A j \in 1..(i - 1) : SubSeq(s, j, j) # c
    ELSE 0

RECURSIVE Split(_, _)
\* String.prototype.split on a one-character separator
Split(s, c) ==
  LET i == IndexOf(s, c) IN
    IF i = 0 THEN << s >>
    ELSE << SubSeq(s, 1, i - 1) >> \o Split(SubSeq(s, i + 1, Len(s)), c)

RECURSIVE StripLeft(_)
StripLeft(s) ==
  IF Len(s) > 0 /\ SubSeq(s, 1, 1) = " " THEN StripLeft(SubSeq(s, 2, Len(s)))
  ELSE s

RECURSIVE StripRight(_)
StripRight(s) ==
  IF Len(s) > 0 /\ SubSeq(s, Len(s), Len(s)) = " "
    THEN StripRight(SubSeq(s, 1, Len(s) - 1))
  ELSE s

\* /^(\d{4}-\d{2}-\d{2})\s+(.+)$/
DateMatch(input) ==
  /\ Len(input) >= 12
  /\ AllDigits(SubSeq(input, 1, 4))
  /\ SubSeq(input, 5, 5) = "-"
  /\ AllDigits(SubSeq(input, 6, 7))
  /\ SubSeq(input, 8, 8) = "-"
  /\ AllDigits(SubSeq(input, 9, 10))
  /\ SubSeq(input, 11, 11) = " "

\* /^(\d{1,2}):(\d{2})$/
Time24Match(t) ==
  /\ Len(t) \in {4, 5}
  /\ SubSeq(t, Len(t) - 2, Len(t) - 2) = ":"
  /\ AllDigits(SubSeq(t, 1, Len(t) - 3))
  /\ AllDigits(SubSeq(t, Len(t) - 1, Len(t)))

\* the (am|pm) a time ends with under the i flag, "" when it has none
Meridiem(t) ==
  IF Len(t) < 2 THEN ""
  ELSE IF SubSeq(t, Len(t) - 1, Len(t)) \in {"am", "AM", "Am", "aM"} THEN "am"
  ELSE IF SubSeq(t, Len(t) - 1, Len(t)) \in {"pm", "PM", "Pm", "pM"} THEN "pm"
  ELSE ""

\* the hour of a 12-hour time
Hour12(hours, meridiem) ==
  IF meridiem = "pm" /\ hours # 12 THEN hours + 12
  ELSE IF meridiem = "am" /\ hours = 12 THEN 0
  ELSE hours

\* parseDateTime: an input with a T or a Z is returned as it is; a date, a
\* space and a time become `${datePart}T${h}:${m}:00`
parseDateTime(input) ==
  IF Contains(input, "T") \/ Contains(input, "Z") THEN input
  ELSE IF ~DateMatch(input) THEN input
  ELSE
    LET datePart == SubSeq(input, 1, 10)
        rest == StripLeft(SubSeq(input, 11, Len(input)))
        timePart == IF rest = "" THEN " " ELSE rest
        meridiem == Meridiem(timePart)
        clock == StripRight(SubSeq(timePart, 1, Len(timePart) - 2))
        hm == IF Time24Match(timePart)
                THEN [h |-> parseInt(SubSeq(timePart, 1, Len(timePart) - 3)),
                      m |-> parseInt(SubSeq(timePart, Len(timePart) - 1,
                                            Len(timePart)))]
              ELSE IF meridiem # "" /\ Time24Match(clock)
                THEN [h |-> Hour12(parseInt(SubSeq(clock, 1, Len(clock) - 3)),
                                   meridiem),
                      m |-> parseInt(SubSeq(clock, Len(clock) - 1, Len(clock)))]
              ELSE IF meridiem # "" /\ AllDigits(clock) /\ Len(clock) <= 2
                THEN [h |-> Hour12(parseInt(clock), meridiem), m |-> 0]
              ELSE IF AllDigits(timePart) /\ Len(timePart) <= 2
                THEN [h |-> parseInt(timePart), m |-> 0]
              ELSE [h |-> 0, m |-> 0]
    IN datePart \o "T" \o padStart2(hm.h) \o ":" \o padStart2(hm.m) \o ":00"

\* no request body: the call sent no calendar event
NoEvent == [start |-> "", end |-> "", timeZone |-> ""]

\* createCalendarEvent up to `await this.calendar.events.insert`: the start
\* and the end of the request body, or the TypeError of
\* `timePart.split(":")` when the start has no T
createCalendarEvent(params) ==
  LET timezone == IF params["timezone"].v # "" THEN params["timezone"].v
                  ELSE "America/Los_Angeles"
      startDateTime == parseDateTime(params["start_time"].v)
      hasEnd == "end_time" \in DOMAIN params /\ params["end_time"].v # ""
      durationMinutes == IF params["duration_minutes"].n # 0
                           THEN params["duration_minutes"].n ELSE 60
      parts == Split(startDateTime, "T")
      clock == Split(parts[2], ":")
      hours == ToNumber(clock[1])
      minutes == IF Len(clock) >= 2 THEN ToNumber(clock[2])
                 ELSE [nan |-> TRUE, n |-> 0]
      totalMinutes == hours.n * 60 + minutes.n + durationMinutes
      endHours == (totalMinutes \div 60) % 24
      endMins == totalMinutes % 60
  IN IF hasEnd
       THEN [threw |-> FALSE, message |-> "",
             event |-> [start |-> startDateTime,
                        end |-> parseDateTime(params["end_time"].v),
                        timeZone |-> timezone]]
     ELSE IF Len(parts) < 2
       THEN [threw |-> TRUE,
             message |-> "Cannot read properties of undefined (reading 'split')",
             event |-> NoEvent]
     ELSE [threw |-> FALSE, message |-> "",
           event |-> [start |-> startDateTime,
                      end |-> IF hours.nan \/ minutes.nan
                                THEN parts[1] \o "TNaN:NaN:00"
                                ELSE parts[1] \o "T" \o padStart2(endHours) \o ":"
                                       \o padStart2(endMins) \o ":00",
                      timeZone |-> timezone]]

\* what the filter of the meeting lists reads of a calendar event: with a
\* join link, with Google Meet conference data, with another conference
EventShapes ==
  {[hangoutLink |-> "https://meet.google.com/abc-defg-hij", solution |-> ""],
   [hangoutLink |-> "", solution |-> "Google Meet"],
   [hangoutLink |-> "", solution |-> "Zoom"]}

\* response.data.items of calendar.events.list: events in upstream order,
\* each named by its place in the response
CalendarResponses ==
  UNION {{[p \in 1..k |-> [id |-> p, hangoutLink |-> shapes[p].hangoutLink,
                           solution |-> shapes[p].solution]] :
            shapes \in [1..k -> EventShapes]} : k \in 0..MaxItems}

\* the predicate of events.filter
IsMeetEvent(event) ==
  event.solution = "Google Meet" \/ event.hangoutLink # ""

\* Array.prototype.slice(0, n)
Slice(items, n) ==
  SubSeq(items, 1, IF n < Len(items) THEN n ELSE Len(items))

\* a listing that cuts the response before it filters it
listUpcomingMeetings_SliceFirst(items, maxResults) ==
  SelectSeq(Slice(items, maxResults), IsMeetEvent)

\* listUpcomingMeetings after `await this.calendar.events.list`
listUpcomingMeetings(items, maxResults) ==
  Slice(SelectSeq(items, IsMeetEvent), maxResults)

\* listPastMeetings after `await this.calendar.events.list`
listPastMeetings(items, maxResults) ==
  Slice(SelectSeq(items, IsMeetEvent), maxResults)

\* the tools whose client method is GmailService.listMessages
MailLists == {"list_emails", "search_emails"}

\* what users.messages.list may answer: no message, or the ids of some
MailResponses == {<<>>, <<"18c2f0a1">>}

(***************************************************************************)
(* gmail-api.ts: the body of a message                                     *)
(*   body      payload.body.data, "" when there is none                    *)
(*   hasParts  payload.parts is there                                      *)
(*   parts     of each part its mimeType and its body.data, "" for none    *)
(***************************************************************************)

Base64Url ==
  "ABCDEFGHIJKLMNOPQRSTUVWXYZabcdefghijklmnopqrstuvwxyz0123456789-_"

\* the characters of the code points 32 to 126, in their order (the grave
\* accent, 96, is written as an apostrophe)
Ascii ==
  " !\"#$%&'()*+,-./0123456789:;<=>?@ABCDEFGHIJKLMNOPQRSTUVWXYZ[\\]^_'"
  \o "abcdefghijklmnopqrstuvwxyz{|}~"

\* the six bits a base64url character stands for
Sextet(c) ==
  CHOOSE k \in 0..(Len(Base64Url) - 1) : SubSeq(Base64Url, k + 1, k + 1) = c

\* the character of a byte; a byte outside 32..126 is shown as "?"
Chr(byte) ==
  IF byte >= 32 /\ byte <= 126 THEN SubSeq(Ascii, byte - 31, byte - 31)
  ELSE "?"

RECURSIVE Base64UrlDecode(_)
\* Buffer.from(data, "base64url").toString("utf-8"): four characters make
\* three bytes; two or three characters at the end make one or two
Base64UrlDecode(data) ==
  IF Len(data) < 2 THEN ""
  ELSE LET n == IF Len(data) < 4 THEN Len(data) ELSE 4
           six(k) == IF k <= n THEN Sextet(SubSeq(data, k, k)) ELSE 0
           word == six(1) * 262144 + six(2) * 4096 + six(3) * 64 + six(4)
       IN Chr(word \div 65536)
          \o (IF n >= 3 THEN Chr((word \div 256) % 256) ELSE "")
          \o (IF n = 4 THEN Chr(word % 256) ELSE "")
          \o Base64UrlDecode(SubSeq(data, 5, Len(data)))

\* gmail-api.ts decodeBody
decodeBody(data) == IF data = "" THEN "" ELSE Base64UrlDecode(data)

Message(body, hasParts, parts) ==
  [body |-> body, hasParts |-> hasParts, parts |-> parts]

\* the body.data a part at a place of payload.parts carries when it carries
\* any: the base64url of "One", "Two?", "<b>3</b>", "4 >> 5?" and "~~~"
PartData == << "T25l", "VHdvPw", "PGI-MzwvYj4", "NCA-PiA1Pw", "fn5-" >>

\* what getMessageBody reads of a part: its media type, and whether it
\* carries body data
PartShapes == {"text/plain", "text/html"} \X BOOLEAN

\* messages users.messages.get may answer: without body and parts, with a
\* top-level body ("Top") alone or beside a part, and multi-part messages
\* of every shape
Messages ==
  { Message("", FALSE, <<>>), Message("VG9w", FALSE, <<>>),
    Message("VG9w", TRUE,
            << [mimeType |-> "text/plain", data |-> PartData[1]] >>) }
  \cup UNION {{Message("", TRUE,
                  [p \in 1..k |->
                     [mimeType |-> shapes[p][1],
                      data |-> IF shapes[p][2]
                                 THEN PartData[((p - 1) % Len(PartData)) + 1]
                                 ELSE ""]]) :
                 shapes \in [1..k -> PartShapes]} : k \in 0..MaxItems}

\* a message whose headers and body are of no interest
PlainMessage == Message("VG9w", FALSE, <<>>)

\* the message id whose message the properties look into
AnyMessageId == "18c2f0a1"

\* a getMessageBody without the preference for text/plain
getMessageBody_FirstWithData(message) ==
  LET any == {k \in 1..Len(message.parts) : message.parts[k].data # ""}
  IN IF message.body # "" THEN decodeBody(message.body)
     ELSE IF message.hasParts /\ any # {}
       THEN decodeBody(message.parts[CHOOSE k \in any :
                                       \A j \in any : k <= j].data)
     ELSE ""

\* gmail-api.ts getMessageBody
getMessageBody(message) ==
  LET plain == {k \in 1..Len(message.parts) :
                  /\ message.parts[k].mimeType = "text/plain"
                  /\ message.parts[k].data # ""}
      any == {k \in 1..Len(message.parts) : message.parts[k].data # ""}
      first(set) == CHOOSE k \in set : \A j \in set : k <= j
  IN IF message.body # "" THEN decodeBody(message.body)
     ELSE IF message.hasParts /\ plain # {}
       THEN decodeBody(message.parts[first(plain)].data)
     ELSE IF message.hasParts /\ any # {}
       THEN decodeBody(message.parts[first(any)].data)
     ELSE ""

\* handleGetEmail: the text before the body, of a message without headers
\* (the grave accents around the thread id are written as apostrophes)
EmailHead ==
  "**Email Details:**\n\n- **Subject:** (No Subject)\n- **From:** \n"
  \o "- **To:** \n- **Date:** \n- **Thread ID:** '18c2f0a1'\n\n"
  \o "---\n\n**Body:**\n\n"

(***************************************************************************)
(* docs-api.ts: what the client reads of a document                        *)
(*   hasBody, hasContent   doc.body and doc.body.content are there         *)
(*   content   the structural elements; of each, whether it is a           *)
(*             paragraph, the textRun contents of its paragraph elements   *)
(*             ("" for an element without a text run) and its endIndex     *)
(***************************************************************************)

Doc(hasBody, hasContent, content) ==
  [hasBody |-> hasBody, hasContent |-> hasContent, content |-> content]

SectionBreak(endIndex) ==
  [kind |-> "sectionBreak", runs |-> <<>>, endIndex |-> endIndex]
Table(endIndex) == [kind |-> "table", runs |-> <<>>, endIndex |-> endIndex]
Paragraph(runs, endIndex) ==
  [kind |-> "paragraph", runs |-> runs, endIndex |-> endIndex]

\* the document of a call that has fetched none
NoDoc == Doc(FALSE, FALSE, <<>>)

\* documents documents.get may answer: without body, without content, with
\* no element, with elements that hold no text run, and with text
Documents ==
  { NoDoc,
    Doc(TRUE, FALSE, <<>>),
    Doc(TRUE, TRUE, <<>>),
    Doc(TRUE, TRUE, << SectionBreak(1), Table(9) >>),
    Doc(TRUE, TRUE, << SectionBreak(1), Paragraph(<<>>, 2) >>),
    Doc(TRUE, TRUE, << SectionBreak(1), Paragraph(<<"">>, 2) >>),
    Doc(TRUE, TRUE, << SectionBreak(1), Paragraph(<<"\n">>, 2) >>),
    Doc(TRUE, TRUE, << SectionBreak(1), Paragraph(<<"Agenda", " items\n">>, 14),
                       Table(22), Paragraph(<<"Done\n">>, 27) >>) }

RECURSIVE Concat(_)
\* text += content, over a sequence of contents; an empty content adds
\* nothing
Concat(parts) ==
  IF parts = <<>> THEN "" ELSE Head(parts) \o Concat(Tail(parts))

RECURSIVE ParagraphText(_)
\* the loop of extractTextFromDoc over the structural elements
ParagraphText(content) ==
  IF content = <<>> THEN ""
  ELSE (IF Head(content).kind = "paragraph" THEN Concat(Head(content).runs)
        ELSE "")
       \o ParagraphText(Tail(content))

\* an extractTextFromDoc that writes a mark for every table
extractTextFromDoc_MarksTables(doc) ==
  IF ~doc.hasBody \/ ~doc.hasContent THEN ""
  ELSE ParagraphText(doc.content)
       \o Concat([k \in 1..Len(doc.content) |->
                    IF doc.content[k].kind = "table" THEN "[table]" ELSE ""])

\* docs-api.ts extractTextFromDoc
extractTextFromDoc(doc) ==
  IF ~doc.hasBody \/ ~doc.hasContent THEN ""
  ELSE ParagraphText(doc.content)

\* the document id whose document the model keeps
AnyDocumentId == "1aBcD"

\* the document upstream with a body text: a section break, and one
\* paragraph that holds the text and the final newline
DocumentOf(text) ==
  Doc(TRUE, TRUE, << SectionBreak(1),
                     Paragraph(<< text \o "\n" >>, Len(text) + 2) >>)

\* docs-api.ts getDocumentEndIndex: the endIndex of the last element, or 2,
\* less one for the final newline
getDocumentEndIndex(doc) ==
  IF ~doc.hasBody \/ ~doc.hasContent THEN 1
  ELSE IF doc.content = <<>> \/ doc.content[Len(doc.content)].endIndex = 0
    THEN 1
  ELSE doc.content[Len(doc.content)].endIndex - 1

\* documents.batchUpdate insertText: the text goes before the character at
\* `index` (the body text starts at index 1)
insertText(text, index, inserted) ==
  SubSeq(text, 1, index - 1) \o inserted \o SubSeq(text, index, Len(text))

\* the call is an appendText on the document the model keeps
AppendsHere(call) ==
  /\ call.name = "append_to_doc"
  /\ call.params["document_id"].v = AnyDocumentId

\* the call awaits the batchUpdate of an appendText on that document
InsertsText(call) ==
  /\ call.pc = "upstream"
  /\ AppendsHere(call)
  /\ call.op = 2

\* the documents documents.get may answer to a call's request: any for
\* get_doc, the document as it is now for an appendText on the document the
\* model keeps
DocResponses(call) ==
  IF call.name = "get_doc" THEN Documents
  ELSE IF call.pc = "upstream" /\ AppendsHere(call) /\ call.op = 1
    THEN {DocumentOf(document)}
  ELSE {call.doc}

\* what the upstream may answer to a call's request: a calendar response
\* for the meeting lists, a list of message ids for the first request of
\* the mail lists, the message for get_email (any message for the id the
\* properties look into), nothing the properties read otherwise
UpstreamResponses(call) ==
  IF call.name \in {"list_upcoming_meetings", "list_past_meetings"}
    THEN CalendarResponses
  ELSE IF call.name \in MailLists /\ call.op = 1 THEN MailResponses
  ELSE IF call.name = "get_email"
    THEN IF call.params["message_id"].v = AnyMessageId
           THEN {<<m>> : m \in Messages}
           ELSE {<<PlainMessage>>}
  ELSE {call.items}

\* the text a handler formats: the meeting lists and the mail lists have
\* one for an empty list
SuccessText(call) ==
  IF call.name = "list_upcoming_meetings" /\ call.listed = <<>>
    THEN "No upcoming Google Meet meetings found in your calendar."
  ELSE IF call.name = "list_past_meetings" /\ call.listed = <<>>
    THEN "No past Google Meet meetings found in your calendar (last 30 days)."
  ELSE IF call.name = "list_emails" /\ call.items = <<>>
    THEN "No emails found in your inbox."
  ELSE IF call.name = "search_emails" /\ call.items = <<>>
    THEN "No emails found matching: \"" \o call.params["query"].v \o "\""
  ELSE IF call.name = "get_email"
    THEN EmailHead \o getMessageBody(call.items[1])
  ELSE IF call.name = "get_doc"
    THEN Handler(call.name).okText \o " Notes**\n\n---\n\n**Content:**\n\n"
         \o (IF extractTextFromDoc(call.doc) = "" THEN "(Empty document)"
             ELSE extractTextFromDoc(call.doc))
  ELSE Handler(call.name).okText

(***************************************************************************)
(* The upstream requests behind a handler's client calls                   *)
(*   wrappers the operations whose catch clauses wrap a failure of the     *)
(*            request in "Failed to <operation>: ", outermost first        *)
(*   effect   what the request changes upstream when it succeeds, "" for   *)
(*            a read                                                       *)
(***************************************************************************)

Op(wrappers, effect) == [wrappers |-> wrappers, effect |-> effect]

RECURSIVE FailedTo(_, _)
\* the message a failure carries once every catch clause has rethrown it
FailedTo(wrappers, detail) ==
  IF wrappers = <<>> THEN detail
  ELSE "Failed to " \o Head(wrappers) \o ": " \o FailedTo(Tail(wrappers), detail)

\* what the last client method of a tool changes upstream
Mutation(name) ==
  CASE name = "create_meeting" -> "spaces.create"
    [] name = "create_calendar_event" -> "events.insert"
    [] name = "send_email" -> "messages.send"
    [] name = "create_draft" -> "drafts.create"
    [] name = "trash_email" -> "messages.trash"
    [] name \in {"mark_as_read", "mark_as_unread"} -> "messages.modify"
    [] name = "replace_in_doc" -> "documents.batchUpdate"
    [] OTHER -> ""

\* docs-api.ts appendText: getDocument for the end index, then batchUpdate
appendText ==
  << Op(<<"append text", "get document">>, ""),
     Op(<<"append text">>, "documents.batchUpdate") >>

\* docs-api.ts createDocument: documents.create, then appendText when
\* content was given and is not empty
createDocument(params) ==
  << Op(<<"create document">>, "documents.create") >>
  \o (IF "content" \in DOMAIN params /\ params["content"].v # ""
        THEN [k \in 1..Len(appendText) |->
                Op(<<"create document">> \o appendText[k].wrappers,
                   appendText[k].effect)]
        ELSE <<>>)

\* docs-api.ts getDocumentText: getDocument under its own wrapper
getDocumentText == << Op(<<"get document text", "get document">>, "") >>

\* GmailService.listMessages: users.messages.list, then getMessage for every
\* message listed, all issued together under Promise.all
listMessages(messages) ==
  << Op(<<"list messages">>, "") >>
  \o (IF messages = <<>> THEN <<>>
      ELSE << Op(<<"list messages", "get message">>, "") >>)

\* the requests a call issues, in order, when none of them fails
UpstreamRequests(call) ==
  LET ops == Handler(call.name).ops IN
    CASE call.name = "create_doc" -> createDocument(call.params)
      [] call.name = "append_to_doc" -> appendText
      [] call.name = "get_doc" ->
           << Op(<<"get document">>, "") >> \o getDocumentText
      [] call.name \in MailLists -> listMessages(call.items)
      [] OTHER -> [k \in 1..Len(ops) |->
                     Op(<<ops[k]>>, IF k = Len(ops) THEN Mutation(call.name)
                                                ELSE "")]

(***************************************************************************)
(* A call-tool request being served                                        *)
(*   pc      "ensureAuth"    in ensureAuth, at `await authenticate()`      *)
(*           "getService"    in get*Service, at `await ensureAuth()`       *)
(*           "authenticate"  in handleAuthenticate, at its await           *)
(*           "upstream"      in the handler, at the await of a client call *)
(*           "done"          the envelope has been returned                *)
(*   await   what the call's await of authenticate() waits on              *)
(*   auth, service   the locals of get*Service and of the wrapper          *)
(*   params  the validated arguments the handler passes to the client      *)
(*   op      the index in UpstreamRequests(call) of the request awaited    *)
(*   doc     the document the last documents.get of the call answered      *)
(*   effects the upstream changes the call's requests have made            *)
(*   event   the calendar event the call sent upstream, if it sent one     *)
(*   items   the calendar events the upstream answered, listed the events  *)
(*           the client returned to the handler                            *)
(*   resp    the envelope the request handler returned                     *)
(* and, recorded for the properties only:                                  *)
(*   result  how handleToolCall ended (an envelope or a thrown Error)      *)
(*   escaped an Error left the request handler                             *)
(*   steps   the stages the call went through, in order                    *)
(*   pre     the cache and the files when the request arrived              *)
(***************************************************************************)

NewCall(req) ==
  [name |-> req.name, args |-> req.args, pc |-> "start", await |-> NoAwait,
   auth |-> 0, service |-> NoService, params |-> EmptyFields, op |-> 0,
   event |-> NoEvent, items |-> <<>>, listed |-> <<>>, doc |-> NoDoc,
   effects |-> <<>>,
   resp |-> NoResponse, result |-> Return(NoResponse), escaped |-> FALSE,
   steps |-> <<>>,
   pre |-> [auth |-> authInstance, credentials |-> credentialsFile,
            token |-> tokenFile]]

\* a request handler without the try/catch
CallToolRequest_NoCatch(result) ==
  [resp |-> result.value, escaped |-> result.threw]

\* index.ts: the CallToolRequestSchema handler's try/catch around
\* handleToolCall
CallToolRequest(result) ==
  IF result.threw
    THEN [resp |-> createErrorResponse("Error: " \o result.message),
          escaped |-> FALSE]
    ELSE [resp |-> result.value, escaped |-> FALSE]

\* the request ends: handleToolCall's promise settles with `result`
Finish(call, result) ==
  LET r == CallToolRequest(result) IN
    [call EXCEPT !.pc = "done", !.result = result, !.resp = r.resp,
                 !.escaped = r.escaped]

\* withMeetAuth / withGmailAuth / withDocsAuth: the catch clause
withAuth(result) ==
  IF result.threw /\ result.message = "NOT_AUTHENTICATED"
    THEN Return(NOT_AUTHENTICATED_RESPONSE)
    ELSE result

\* a handler that passes its arguments on without validateInput
RunHandler_Unvalidated(call, service) ==
  [call EXCEPT !.service = service, !.pc = "upstream", !.op = 1,
               !.params = call.args.fields,
               !.steps = @ \o <<"auth", "call">>]

\* the callback a handler passes to its wrapper, up to its first await:
\* validateInput, then the first client call
RunHandler(call, service) ==
  LET h == Handler(call.name)
      v == validateInput(h.schema, call.args)
      c == [call EXCEPT !.service = service, !.steps = @ \o <<"auth">>]
      e == createCalendarEvent(v.data)
  IN IF h.validates /\ ~v.ok
       THEN Finish([c EXCEPT !.steps = @ \o <<"validate">>],
                   withAuth(Throw(v.message)))
     ELSE IF call.name = "create_calendar_event" /\ e.threw
       THEN Finish([c EXCEPT !.params = v.data,
                             !.steps = @ \o <<"validate", "call">>],
                   withAuth(Throw("Failed to " \o h.ops[1] \o ": " \o e.message)))
       ELSE [c EXCEPT !.event = IF call.name = "create_calendar_event"
                                  THEN e.event ELSE NoEvent,
                      !.pc = "upstream", !.op = 1,
                      !.params = IF h.validates THEN v.data ELSE EmptyFields,
                      !.steps = @ \o (IF h.validates THEN <<"validate">>
                                                     ELSE <<>>) \o <<"call">>]

\* the cached client of a handler's domain
CachedService(domain) ==
  CASE domain = "meet" -> meetService
    [] domain = "gmail" -> gmailService
    [] domain = "docs" -> docsService

\* what an await of authenticate() has by now: the promise's outcome
Outcome(aw) ==
  IF aw.k # "server" THEN aw
  ELSE IF servers[aw.srv].settled = "resolved"
    THEN Resolved(servers[aw.srv].client)
  ELSE IF servers[aw.srv].settled = "rejected" THEN Rejected(InvalidGrant)
  ELSE aw

(***************************************************************************)
(* Actions                                                                 *)
(***************************************************************************)

Init ==
  /\ credentialsFile \in CredentialFiles
  /\ tokenFile \in TokenFiles
  \* the token file is read and written under an OAuth credentials file only
  /\ getCredentialType(credentialsFile) # "oauth" => tokenFile = "none"
  /\ credentialsFile \in {"none", "unparseable"} => tokenFile = "none"
  /\ authInstance = 0
  /\ meetService = NoService
  /\ gmailService = NoService
  /\ docsService = NoService
  /\ nextId = 1
  /\ calls = <<>>
  /\ servers = <<>>
  /\ crashed = FALSE
  /\ document = "Notes"

Cache == << authInstance, meetService, gmailService, docsService >>
Files == << credentialsFile, tokenFile >>

\* a default case that throws instead of returning an envelope
UnknownTool_Throws(req) ==
  /\ Handler(req.name).domain = "unknown"
  /\ calls' = Append(calls,
       Finish(NewCall(req), Throw("Unknown tool: " \o req.name)))
  /\ UNCHANGED << Cache, Files, document, nextId, servers, crashed >>

\* handleToolCall's default case
UnknownTool(req) ==
  /\ Handler(req.name).domain = "unknown"
  /\ calls' = Append(calls,
       Finish(NewCall(req),
              Return(createErrorResponse("Unknown tool: " \o req.name))))
  /\ UNCHANGED << Cache, Files, document, nextId, servers, crashed >>

\* an auth_status that signs in when the credentials allow it
AuthStatus_SignsIn(req) ==
  /\ Handler(req.name).domain = "auth_status"
  /\ calls' = Append(calls,
       Finish([NewCall(req) EXCEPT !.steps = <<"format">>],
              Return(createSuccessResponse(getAuthStatus))))
  /\ authInstance' = IF isAuthenticated /\ authInstance = 0 THEN nextId
                     ELSE authInstance
  /\ nextId' = nextId + 1
  /\ UNCHANGED << meetService, gmailService, docsService, Files, document,
                  servers, crashed >>

\* handleAuthStatus
AuthStatus(req) ==
  /\ Handler(req.name).domain = "auth_status"
  /\ calls' = Append(calls,
       Finish([NewCall(req) EXCEPT !.steps = <<"format">>],
              Return(createSuccessResponse(getAuthStatus))))
  /\ UNCHANGED << Cache, Files, document, nextId, servers, crashed >>

\* handleAuthenticate up to `await authenticate()`
AuthenticateStart(req) ==
  /\ Handler(req.name).domain = "authenticate"
  /\ LET a == authenticate IN
       /\ calls' = Append(calls,
            [NewCall(req) EXCEPT !.pc = "authenticate", !.await = a.out])
       /\ nextId' = a.nextId
       /\ servers' = a.servers
       /\ crashed' = a.crashed
  /\ UNCHANGED << Cache, Files, document >>

\* handleAuthenticate that leaves the cached Docs client in place
AuthenticateResume_KeepsDocs(i) ==
  /\ calls[i].pc = "authenticate"
  /\ LET o == Outcome(calls[i].await) IN
       \/ /\ o.k = "value"
          /\ authInstance' = o.cred
          /\ meetService' = Service(nextId, o.cred)
          /\ gmailService' = Service(nextId + 1, o.cred)
          /\ docsService' = IF docsService = NoService
                               THEN Service(nextId + 2, o.cred)
                               ELSE docsService
          /\ nextId' = nextId + 3
          /\ calls' = [calls EXCEPT ![i] =
               Finish([@ EXCEPT !.auth = o.cred, !.steps = <<"auth", "format">>],
                 Return(createSuccessResponse(Handler(@.name).okText)))]
       \/ /\ o.k = "error"
          /\ calls' = [calls EXCEPT ![i] =
               Finish(@, Return(createErrorResponse(
                 "[X] Authentication failed: " \o o.msg)))]
          /\ UNCHANGED << Cache, nextId >>
  /\ UNCHANGED << Files, document, servers, crashed >>

\* handleAuthenticate whose catch clause resets the cache
AuthenticateResume_ClearsOnFailure(i) ==
  /\ calls[i].pc = "authenticate"
  /\ LET o == Outcome(calls[i].await) IN
       \/ /\ o.k = "value"
          /\ authInstance' = o.cred
          /\ meetService' = Service(nextId, o.cred)
          /\ gmailService' = Service(nextId + 1, o.cred)
          /\ docsService' = Service(nextId + 2, o.cred)
          /\ nextId' = nextId + 3
          /\ calls' = [calls EXCEPT ![i] =
               Finish([@ EXCEPT !.auth = o.cred, !.steps = <<"auth", "format">>],
                 Return(createSuccessResponse(Handler(@.name).okText)))]
       \/ /\ o.k = "error"
          /\ calls' = [calls EXCEPT ![i] =
               Finish(@, Return(createErrorResponse(
                 "[X] Authentication failed: " \o o.msg)))]
          /\ authInstance' = 0
          /\ meetService' = NoService
          /\ gmailService' = NoService
          /\ docsService' = NoService
          /\ UNCHANGED nextId
  /\ UNCHANGED << Files, document, servers, crashed >>

\* handleAuthenticate after its await: the four assignments and the
\* envelope, or the catch clause
AuthenticateResume(i) ==
  /\ calls[i].pc = "authenticate"
  /\ LET o == Outcome(calls[i].await) IN
       \/ /\ o.k = "value"
          /\ authInstance' = o.cred
          /\ meetService' = Service(nextId, o.cred)
          /\ gmailService' = Service(nextId + 1, o.cred)
          /\ docsService' = Service(nextId + 2, o.cred)
          /\ nextId' = nextId + 3
          /\ calls' = [calls EXCEPT ![i] =
               Finish([@ EXCEPT !.auth = o.cred, !.steps = <<"auth", "format">>],
                 Return(createSuccessResponse(Handler(@.name).okText)))]
       \/ /\ o.k = "error"
          /\ calls' = [calls EXCEPT ![i] =
               Finish(@, Return(createErrorResponse(
                 "[X] Authentication failed: " \o o.msg)))]
          /\ UNCHANGED << Cache, nextId >>
  /\ UNCHANGED << Files, document, servers, crashed >>

\* with*Auth up to the first await that gives way: get*Service finds its
\* client cached, or ensureAuth finds the credential cached, or calls
\* authenticate(), or throws NOT_AUTHENTICATED
withAuthStart(req) ==
  /\ Handler(req.name).domain \in {"meet", "gmail", "docs"}
  /\ LET cached == CachedService(Handler(req.name).domain) IN
       IF cached # NoService
         THEN /\ calls' = Append(calls, RunHandler(NewCall(req), cached))
              /\ UNCHANGED << nextId, servers, crashed >>
       ELSE IF authInstance # 0
         THEN /\ calls' = Append(calls,
                   [NewCall(req) EXCEPT !.pc = "getService",
                                        !.auth = authInstance])
              /\ UNCHANGED << nextId, servers, crashed >>
       ELSE IF isAuthenticated
         THEN LET a == authenticate IN
                /\ calls' = Append(calls,
                     [NewCall(req) EXCEPT !.pc = "ensureAuth",
                                          !.await = a.out])
                /\ nextId' = a.nextId
                /\ servers' = a.servers
                /\ crashed' = a.crashed
       ELSE /\ calls' = Append(calls,
                 Finish(NewCall(req), withAuth(Throw("NOT_AUTHENTICATED"))))
            /\ UNCHANGED << nextId, servers, crashed >>
  /\ UNCHANGED << Cache, Files, document >>

\* a handler that validates its arguments before it asks for its client
ToolStart_ValidateFirst(req) ==
  LET h == Handler(req.name)
      v == validateInput(h.schema, req.args)
  IN IF h.validates /\ ~v.ok
       THEN /\ h.domain \in {"meet", "gmail", "docs"}
            /\ calls' = Append(calls,
                 Finish([NewCall(req) EXCEPT !.steps = <<"validate">>],
                        withAuth(Throw(v.message))))
            /\ UNCHANGED << Cache, Files, document, nextId, servers, crashed >>
       ELSE withAuthStart(req)

\* the handlers of the Meet, Mail and Docs tools: each returns
\* with*Auth(async (service) => ...)
ToolStart(req) == withAuthStart(req)

\* ensureAuth after `await authenticate()`: the credential is cached, or
\* the Error goes up through the wrapper to the request handler
EnsureAuthResume(i) ==
  /\ calls[i].pc = "ensureAuth"
  /\ LET o == Outcome(calls[i].await) IN
       \/ /\ o.k = "value"
          /\ authInstance' = o.cred
          /\ calls' = [calls EXCEPT ![i].pc = "getService", ![i].auth = o.cred]
       \/ /\ o.k = "error"
          /\ calls' = [calls EXCEPT ![i] = Finish(@, withAuth(Throw(o.msg)))]
          /\ UNCHANGED authInstance
  /\ UNCHANGED << meetService, gmailService, docsService, Files, document, nextId,
                  servers, crashed >>

\* a get*Service that builds the clients of all three domains
GetServiceResume_AllClients(i) ==
  /\ calls[i].pc = "getService"
  /\ meetService' = Service(nextId, calls[i].auth)
  /\ gmailService' = Service(nextId + 1, calls[i].auth)
  /\ docsService' = Service(nextId + 2, calls[i].auth)
  /\ calls' = [calls EXCEPT ![i] =
       RunHandler(@, CASE Handler(@.name).domain = "meet" -> meetService'
                       [] Handler(@.name).domain = "gmail" -> gmailService'
                       [] OTHER -> docsService')]
  /\ nextId' = nextId + 3
  /\ UNCHANGED << authInstance, Files, document, servers, crashed >>

\* get*Service after `await ensureAuth()`: the client is built and cached,
\* then the wrapper runs the handler with it
GetServiceResume(i) ==
  /\ calls[i].pc = "getService"
  /\ LET domain == Handler(calls[i].name).domain
         service == Service(nextId, calls[i].auth)
     IN /\ meetService' = IF domain = "meet" THEN service ELSE meetService
        /\ gmailService' = IF domain = "gmail" THEN service ELSE gmailService
        /\ docsService' = IF domain = "docs" THEN service ELSE docsService
        /\ calls' = [calls EXCEPT ![i] = RunHandler(@, service)]
  /\ nextId' = nextId + 1
  /\ UNCHANGED << authInstance, Files, document, servers, crashed >>

\* the client call a handler awaits answers: the next client call, or the
\* formatted success envelope
UpstreamOk(i) ==
  /\ calls[i].pc = "upstream"
  /\ \E items \in UpstreamResponses(calls[i]), doc \in DocResponses(calls[i]) :
       LET ops == UpstreamRequests([calls[i] EXCEPT !.items = items])
           made == IF ops[calls[i].op].effect = "" THEN <<>>
                   ELSE << ops[calls[i].op].effect >>
           listed == CASE calls[i].name = "list_upcoming_meetings" ->
                            listUpcomingMeetings(items, calls[i].params["limit"].n)
                       [] calls[i].name = "list_past_meetings" ->
                            listPastMeetings(items, calls[i].params["limit"].n)
                       [] OTHER -> <<>>
           c == [calls[i] EXCEPT !.items = items, !.listed = listed,
                                 !.doc = doc, !.effects = @ \o made]
       IN calls' = [calls EXCEPT ![i] =
            IF @.op < Len(ops)
              THEN [@ EXCEPT !.op = @ + 1, !.items = items, !.doc = doc,
                             !.effects = @ \o made,
                             !.steps = @ \o <<"call">>]
              ELSE Finish([c EXCEPT !.steps = @ \o <<"format">>],
                          withAuth(Return(createSuccessResponse(SuccessText(c)))))]
  /\ document' = IF InsertsText(calls[i])
                   THEN insertText(document,
                                   getDocumentEndIndex(calls[i].doc),
                                   calls[i].params["text"].v)
                   ELSE document
  /\ UNCHANGED << Cache, Files, nextId, servers, crashed >>

\* a client that issues a failed request again
UpstreamFails_Retries(i) ==
  /\ calls[i].pc = "upstream"
  /\ Len(SelectSeq(calls[i].steps, LAMBDA x : x = "call"))
       <= Len(UpstreamRequests(calls[i]))
  /\ calls' = [calls EXCEPT ![i].steps = @ \o <<"call">>]
  /\ UNCHANGED << Cache, Files, document, nextId, servers, crashed >>

\* the request a call awaits fails: every catch clause around it wraps the
\* message and rethrows, and the call ends
UpstreamFails(i) ==
  /\ calls[i].pc = "upstream"
  /\ LET ops == UpstreamRequests(calls[i]) IN
       calls' = [calls EXCEPT ![i] =
         Finish(@, withAuth(Throw(FailedTo(ops[@.op].wrappers,
                                           UpstreamDetail))))]
  /\ UNCHANGED << Cache, Files, document, nextId, servers, crashed >>

\* startLocalServer's request listener: a request without ?code= gets 400
CallbackWithoutCode(s) ==
  /\ servers[s].listening
  /\ UNCHANGED vars

\* a request with ?code=, received while the listener was listening, whose
\* `await oauth2Client.getToken(code)` now answers: setCredentials,
\* saveCredentials (a failed write is logged and swallowed), server.close(),
\* resolve.  Before the await the listener changes nothing, so the request
\* shows only here; it may have come in before another request closed the
\* listener.
TokenExchanged(s, written) ==
  /\ servers[s].bound
  /\ tokenFile' = IF written THEN "valid" ELSE tokenFile
  /\ servers' = [servers EXCEPT ![s].listening = FALSE,
                                ![s].settled = IF @ = "pending" THEN "resolved"
                                               ELSE @]
  /\ UNCHANGED << Cache, credentialsFile, document, nextId, calls, crashed >>

\* getToken throws: the catch clause answers 500 and rejects
TokenExchangeFails(s) ==
  /\ servers[s].bound
  /\ servers' = [servers EXCEPT ![s].settled = IF @ = "pending" THEN "rejected"
                                               ELSE @]
  /\ UNCHANGED << Cache, Files, document, nextId, calls, crashed >>

\* the requests drawn for calls that overlap: the two authentication tools,
\* an unknown name, a Meet tool and a Mail tool
CommonRequests ==
  {r \in Requests : r.name \in {"auth_status", "authenticate",
                                "delete_everything", "create_meeting",
                                "gmail_profile"}}

InFlight == {i \in 1..Len(calls) : calls[i].pc # "done"}

\* a request arrives while others may be in flight
Arrives(req) ==
  /\ Len(calls) < MaxCalls
  /\ req \in CommonRequests

\* a request arrives when no call is in flight; the last request of a
\* behaviour is any request of Requests, the ones before it are common ones
ArrivesAlone(req) ==
  /\ Len(calls) < MaxCalls
  /\ InFlight = {}
  /\ \A i \in 1..Len(calls) :
       [name |-> calls[i].name, args |-> calls[i].args] \in CommonRequests

\* handleToolCall: the router's switch
handleToolCall(req) ==
  \/ UnknownTool(req)
  \/ AuthStatus(req)
  \/ AuthenticateStart(req)
  \/ ToolStart(req)

\* what the calls in flight and the callback listeners do next
Continue ==
  \/ \E i \in 1..Len(calls) :
       \/ AuthenticateResume(i)
       \/ EnsureAuthResume(i)
       \/ GetServiceResume(i)
       \/ UpstreamOk(i)
       \/ UpstreamFails(i)
  \/ \E s \in 1..Len(servers) :
       \/ CallbackWithoutCode(s)
       \/ \E written \in BOOLEAN : TokenExchanged(s, written)
       \/ TokenExchangeFails(s)

\* the server under overlapping calls
Next ==
  /\ ~crashed
  /\ \/ \E req \in Requests : Arrives(req) /\ handleToolCall(req)
     \/ Continue

Spec == Init /\ [][Next]_vars

\* the server under calls that arrive one at a time, every tool among them
NextTools ==
  /\ ~crashed
  /\ \/ \E req \in Requests : ArrivesAlone(req) /\ handleToolCall(req)
     \/ Continue

SpecTools == Init /\ [][NextTools]_vars

\* start times a client may send: a date and a 24-hour time, ISO 8601, a
\* 12-hour time, and a text that is neither
StartTimes ==
  {"2026-01-30 00:00", "2026-01-30 09:05", "2026-01-30 14:00",
   "2026-01-30 23:30", "2026-01-30T14:00:00", "2026-01-30T23:59:00",
   "2026-01-30 2:00 PM", "tomorrow"}

\* requests for create_calendar_event: each start time with no duration and
\* with durations across the schema's range, and one with an end time
CalendarRequests ==
  {[name |-> "create_calendar_event",
    args |-> Args([k \in {"summary", "start_time"} |->
                    IF k = "summary" THEN Str("Review") ELSE Str(t)])] :
     t \in StartTimes}
  \cup {[name |-> "create_calendar_event",
         args |-> Args([k \in {"summary", "start_time", "duration_minutes"} |->
                         CASE k = "summary" -> Str("Review")
                           [] k = "start_time" -> Str(t)
                           [] OTHER -> Num(d)])] :
          t \in StartTimes,
          d \in {CreateCalendarEventSchema[5].lo, 90,
                 CreateCalendarEventSchema[5].hi}}
  \cup {[name |-> "create_calendar_event",
         args |-> Args([k \in {"summary", "start_time", "end_time"} |->
                         CASE k = "summary" -> Str("Review")
                           [] k = "start_time" -> Str("2026-01-30 14:00")
                           [] OTHER -> Str("2026-01-30 16:30")])]}
  \cup {[name |-> "create_calendar_event",
         args |-> Args([k \in {"summary", "start_time", "timezone"} |->
                         CASE k = "summary" -> Str("Review")
                           [] k = "start_time" -> Str("2026-01-30 14:00")
                           [] OTHER -> Str(z)])] :
          z \in {"", "Europe/Berlin"}}

\* the server under calls that arrive one at a time, the last of them a
\* create_calendar_event call
NextCalendar ==
  /\ ~crashed
  /\ \/ \E req \in CommonRequests \cup CalendarRequests :
          ArrivesAlone(req) /\ handleToolCall(req)
     \/ Continue

SpecCalendar == Init /\ [][NextCalendar]_vars

\* the tools that take a limit
LimitTools ==
  {"list_conferences", "list_upcoming_meetings", "list_past_meetings",
   "list_emails", "search_emails", "list_docs", "search_docs"}

\* requests for the tools that take a limit: no limit, and the limits
\* around both ends of the schema's range
LimitRequests ==
  UNION {
    LET schema == Handler(n).schema
        f == CHOOSE g \in {schema[i] : i \in 1..Len(schema)} : g.name = "limit"
        others == {g \in {schema[i] : i \in 1..Len(schema)} :
                     g.name # "limit" /\ ~g.optional}
        base == [g \in {h.name : h \in others} |->
                   GoodValue(CHOOSE h \in others : h.name = g)]
        with(v) == [k \in DOMAIN base \cup {"limit"} |->
                     IF k = "limit" THEN Num(v) ELSE base[k]]
    IN {[name |-> n, args |-> Args(base)]}
       \cup {[name |-> n, args |-> Args(with(v))] :
               v \in {f.lo - 1, f.lo, f.lo + 1, f.hi, f.hi + 1}}
    : n \in LimitTools}

\* the server under calls that arrive one at a time, the last of them a
\* call of a tool that takes a limit
NextLimits ==
  /\ ~crashed
  /\ \/ \E req \in CommonRequests \cup LimitRequests :
          ArrivesAlone(req) /\ handleToolCall(req)
     \/ Continue

SpecLimits == Init /\ [][NextLimits]_vars

\* get_email for the message the properties look into
MailBodyRequests ==
  {[name |-> "get_email",
    args |-> Args([k \in {"message_id"} |-> Str(AnyMessageId)])]}

\* the server under calls that arrive one at a time, the last of them a
\* get_email call
NextMail ==
  /\ ~crashed
  /\ \/ \E req \in CommonRequests \cup MailBodyRequests :
          ArrivesAlone(req) /\ handleToolCall(req)
     \/ Continue

SpecMail == Init /\ [][NextMail]_vars

\* the texts clients append to the document the model keeps
AppendTexts == {" A", " B"}

\* append_to_doc on that document, and the two authentication tools and an
\* unknown name beside it
DocsRequests ==
  {r \in CommonRequests : r.name \in {"auth_status", "authenticate",
                                       "delete_everything"}}
  \cup {[name |-> "append_to_doc",
         args |-> Args([k \in {"document_id", "text"} |->
                         IF k = "document_id" THEN Str(AnyDocumentId)
                         ELSE Str(t)])] : t \in AppendTexts}

\* the server under calls that overlap, append_to_doc among them
NextDocs ==
  /\ ~crashed
  /\ \/ \E req \in DocsRequests : Len(calls) < MaxCalls /\ handleToolCall(req)
     \/ Continue

SpecDocs == Init /\ [][NextDocs]_vars

\* the tools whose schema, if they have one, requires no key
NoRequiredArgument ==
  {n \in ToolNames :
     \A k \in 1..Len(Handler(n).schema) : Handler(n).schema[k].optional}

\* calls of those tools with an empty arguments mapping, and with the
\* arguments left out of the request
OmittedRequests ==
  {[name |-> n, args |-> a] : n \in NoRequiredArgument,
                              a \in {Args(EmptyFields), NoArgs}}

\* the server under calls that arrive one at a time, the last of them a
\* call of a tool that requires no argument
NextOmitted ==
  /\ ~crashed
  /\ \/ \E req \in CommonRequests \cup OmittedRequests :
          ArrivesAlone(req) /\ handleToolCall(req)
     \/ Continue

SpecOmitted == Init /\ [][NextOmitted]_vars

(***************************************************************************)
(* Properties                                                              *)
(***************************************************************************)

Done == {i \in 1..Len(calls) : calls[i].pc = "done"}

\* the calls of tools that go through with*Auth
Gated == {i \in 1..Len(calls) :
            Handler(calls[i].name).domain \in {"meet", "gmail", "docs"}}

\* the calls of a tool with a schema whose arguments the schema refuses
Refused == {i \in Gated :
              /\ Handler(calls[i].name).validates
              /\ ParseIssues(Handler(calls[i].name).schema, calls[i].args) # <<>>}

Text(resp) == resp.content[1].text

Count(seq, x) == Cardinality({p \in 1..Len(seq) : seq[p] = x})

\* the request arrived with no credential cached and with no credentials
\* file, or with an OAuth client file and no token file
NoCredentialSource(c) ==
  /\ c.pre.auth = 0
  /\ \/ c.pre.credentials = "none"
     \/ c.pre.credentials \in {"oauth", "oauth_nokey"} /\ c.pre.token = "none"

\* C1: a call of any tool other than auth_status and authenticate that
\* arrives when no credential is cached and there is no credentials file, or
\* an OAuth client file without a saved token, ends at once with the one
\* fixed not-authenticated envelope, whatever the tool and its arguments,
\* and invokes no operation of a service client.
C1_NotAuthenticatedEnvelope ==
  \A i \in 1..Len(calls) :
    (calls[i].name \in ToolNames \ {"auth_status", "authenticate"}
       /\ NoCredentialSource(calls[i]))
    => /\ i \in Done
       /\ calls[i].resp = [content |-> << [type |-> "text", text |->
            "[X] Not authenticated. Please use the 'authenticate' tool first."] >>,
            isError |-> TRUE]
       /\ Count(calls[i].steps, "call") = 0
       /\ calls[i].service = NoService

C1_Witness ==
  \E i \in Done :
    /\ calls[i].name = "get_doc"
    /\ calls[i].pre.credentials = "oauth"
    /\ NoCredentialSource(calls[i])
    /\ Text(calls[i].resp) =
         "[X] Not authenticated. Please use the 'authenticate' tool first."

\* C2: a request whose name is not in the catalog is answered at once with
\* an error envelope whose text names the tool; no exception is thrown, no
\* authentication is started, and the cached credential and the three
\* cached clients are left as they were.
C2_UnknownTool ==
  [][(Len(calls') = Len(calls) + 1 /\ calls'[Len(calls')].name \notin ToolNames)
     => LET c == calls'[Len(calls')] IN
          /\ c.pc = "done"
          /\ c.resp.isError
          /\ Len(c.resp.content) = 1
          /\ Text(c.resp) = "Unknown tool: " \o c.name
          /\ ~c.result.threw
          /\ ~c.escaped
          /\ c.await = NoAwait
          /\ Cache' = Cache
          /\ servers' = servers
          /\ nextId' = nextId]_vars

C2_Witness ==
  \E i \in Done : \E j \in InFlight :
    /\ calls[i].name = "delete_everything"
    /\ Text(calls[i].resp) = "Unknown tool: delete_everything"
    /\ calls[j].pc = "authenticate"
    /\ i > j

\* C3: every request that completes has exactly one envelope; a thrown
\* Error (validation, upstream failure, failed lazy authentication) never
\* leaves the request handler and becomes one error envelope that carries
\* the Error's message.
C3_ExactlyOneEnvelope ==
  \A i \in Done :
    /\ ~calls[i].escaped
    /\ calls[i].resp # NoResponse
    /\ Len(calls[i].resp.content) >= 1
    /\ calls[i].result.threw
         => /\ calls[i].resp.isError
            /\ Len(calls[i].resp.content) = 1
            /\ Contains(Text(calls[i].resp), calls[i].result.message)
    /\ ~calls[i].result.threw => calls[i].resp = calls[i].result.value

C3_Witness ==
  \E i \in Done :
    /\ calls[i].name = "list_emails"
    /\ calls[i].result.threw
    /\ calls[i].result.message = InvalidOAuthFormat
    /\ Text(calls[i].resp) = "Error: Invalid OAuth credentials format"

\* C4: an envelope with the error flag has exactly one text segment; an
\* envelope without it has at least one segment.
C4_EnvelopeConsistency ==
  \A i \in Done :
    /\ calls[i].resp.isError \in BOOLEAN
    /\ calls[i].resp.isError => Len(calls[i].resp.content) = 1
    /\ ~calls[i].resp.isError => Len(calls[i].resp.content) >= 1
    /\ \A p \in 1..Len(calls[i].resp.content) :
         calls[i].resp.content[p].type = "text"

C4_Witness ==
  /\ \E i \in Done : calls[i].resp.isError /\ calls[i].name = "authenticate"
  /\ \E i \in Done : ~calls[i].resp.isError /\ calls[i].name = "get_doc"

\* the paths of the issues the schema raises for a call's arguments
IssuePaths(c) ==
  LET issues == ParseIssues(Handler(c.name).schema, c.args)
  IN {issues[p][1] : p \in 1..Len(issues)}

\* the envelope's text names every field the arguments violate
NamesEachViolatedField(c) ==
  /\ c.resp.isError
  /\ Len(c.resp.content) = 1
  /\ \A path \in IssuePaths(c) : Contains(Text(c.resp), path \o ": ")

\* C5 as stated: whenever a tool with a schema is called with arguments the
\* schema refuses, the call ends with an error envelope whose text names
\* each violated field, and no operation of a service client is invoked.
C5_ViolatedFieldsAlwaysNamed ==
  \A i \in Refused \cap Done :
    /\ NamesEachViolatedField(calls[i])
    /\ Count(calls[i].steps, "call") = 0

\* C5: a call whose arguments the schema refuses never invokes an operation
\* of a service client and ends with an error envelope; once the call has
\* its service client the envelope's text names each violated field, and
\* otherwise it is the not-authenticated envelope or the authentication
\* Error's message.
C5_RefusedArguments ==
  \A i \in Refused :
    /\ Count(calls[i].steps, "call") = 0
    /\ calls[i].pc # "upstream"
    /\ i \in Done =>
         /\ calls[i].resp.isError
         /\ IF calls[i].service # NoService
              THEN /\ NamesEachViolatedField(calls[i])
                   /\ StartsWith(Text(calls[i].resp), "Error: Invalid input: ")
              ELSE \/ Text(calls[i].resp) =
                        "[X] Not authenticated. Please use the 'authenticate' tool first."
                   \/ Text(calls[i].resp) \in
                        {"Error: " \o m : m \in {CredentialsNotFound,
                           JsonSyntaxError, InvalidOAuthFormat, InvalidGrant}}

C5_Witness ==
  \E i \in Refused \cap Done :
    /\ calls[i].name = "send_email"
    /\ calls[i].service # NoService
    /\ Contains(Text(calls[i].resp), "to: Valid email address required")
    /\ Contains(Text(calls[i].resp), "subject: Subject is required")
    /\ Contains(Text(calls[i].resp), "body: Email body is required")

\* the request arrived when authentication could not be ensured: nothing
\* cached, and no credentials file that can be read, or an OAuth client file
\* and no token file
CannotEnsureAuth(c) ==
  /\ c.pre.auth = 0
  /\ \/ c.pre.credentials \in {"none", "unparseable"}
     \/ c.pre.credentials \in {"oauth", "oauth_nokey"} /\ c.pre.token = "none"

\* C6: when authentication cannot be ensured, a call of a Meet, Mail or Docs
\* tool ends with the not-authenticated envelope and the validator is not
\* run: arguments the schema refuses get the not-authenticated envelope, not
\* a validation error.
C6_ShortCircuitBeforeValidation ==
  \A i \in Gated :
    CannotEnsureAuth(calls[i])
    => /\ i \in Done
       /\ Count(calls[i].steps, "validate") = 0
       /\ Text(calls[i].resp) =
            "[X] Not authenticated. Please use the 'authenticate' tool first."
       /\ ~Contains(Text(calls[i].resp), "Invalid input")

C6_Witness ==
  \E i \in Refused \cap Done :
    /\ calls[i].name = "send_email"
    /\ CannotEnsureAuth(calls[i])
    /\ calls[i].pre.credentials = "unparseable"
    /\ calls[i].resp.isError
    /\ calls[i].steps = <<>>

IsRefused(c) ==
  /\ Handler(c.name).domain \in {"meet", "gmail", "docs"}
  /\ Handler(c.name).validates
  /\ ParseIssues(Handler(c.name).schema, c.args) # <<>>

\* the stages in the order validate, authenticate, call, format
RankValidateFirst(stage) ==
  CASE stage = "validate" -> 1
    [] stage = "auth" -> 2
    [] stage = "call" -> 3
    [] stage = "format" -> 4

\* the stages in the order authenticate, validate, call, format
RankAuthFirst(stage) ==
  CASE stage = "auth" -> 1
    [] stage = "validate" -> 2
    [] stage = "call" -> 3
    [] stage = "format" -> 4

\* C7 as stated: a call's stages come in the order validate, authenticate,
\* call, format, and a step of a call whose arguments the schema refuses
\* attempts no authentication and creates no credential and no client.
C7_ValidateBeforeAuthenticate ==
  [][\A i \in 1..Len(calls') :
       /\ \A p, q \in 1..Len(calls'[i].steps) :
            p < q => RankValidateFirst(calls'[i].steps[p])
                       <= RankValidateFirst(calls'[i].steps[q])
       /\ (IsRefused(calls'[i]) /\ (i > Len(calls) \/ calls'[i] # calls[i]))
            => /\ calls'[i].await = NoAwait
               /\ Cache' = Cache
               /\ nextId' = nextId
               /\ servers' = servers]_vars

\* C7: a call's stages come in the order authenticate, validate, call,
\* format: the credential and the client are obtained (created when they are
\* not cached) before the arguments are validated, also when the schema
\* refuses them, and a client operation is invoked only with a client in
\* hand and arguments the schema accepts.
C7_AuthenticateBeforeValidate ==
  \A i \in Gated :
    LET c == calls[i]
        st == c.steps
    IN /\ \A p, q \in 1..Len(st) :
            p < q => RankAuthFirst(st[p]) <= RankAuthFirst(st[q])
       /\ Count(st, "auth") <= 1
       /\ Count(st, "validate") <= 1
       /\ Count(st, "validate") = 1
            => /\ st[1] = "auth"
               /\ c.service # NoService
               /\ c.service.auth # 0
       /\ Count(st, "call") > 0
            => /\ st[1] = "auth"
               /\ c.service # NoService
               /\ Handler(c.name).validates
                    => /\ st[2] = "validate"
                       /\ ParseIssues(Handler(c.name).schema, c.args) = <<>>
       /\ Count(st, "format") > 0 => Count(st, "call") > 0

C7_Witness ==
  \E i \in Refused \cap Done :
    /\ calls[i].pre.auth = 0
    /\ calls[i].steps = <<"auth", "validate">>
    /\ calls[i].auth # 0
    /\ authInstance = calls[i].auth
    /\ calls[i].service # NoService
    /\ CachedService(Handler(calls[i].name).domain) = calls[i].service
    /\ StartsWith(Text(calls[i].resp), "Error: Invalid input: ")

\* the calls that wait for an authenticate() of their own that has not
\* settled
Authenticating ==
  {i \in InFlight : /\ calls[i].pc \in {"authenticate", "ensureAuth"}
                    /\ Outcome(calls[i].await).k = "server"}

\* the callback listeners whose flow has not settled
PendingFlows ==
  {s \in 1..Len(servers) : servers[s].settled = "pending"}

\* C8 as stated: at most one authentication attempt is in flight at any
\* time, lazy or explicit, and a second interactive flow or a second
\* callback listener is never started while one is pending.
C8_OneAuthenticationInFlight ==
  /\ Cardinality(Authenticating) <= 1
  /\ Cardinality(PendingFlows) <= 1

\* every credential built so far that something still refers to
Credentials ==
  ({authInstance, meetService.auth, gmailService.auth, docsService.auth}
   \cup {calls[i].auth : i \in 1..Len(calls)}
   \cup {calls[i].await.cred : i \in 1..Len(calls)}
   \cup {calls[i].service.auth : i \in 1..Len(calls)}
   \cup {servers[s].client : s \in 1..Len(servers)}) \ {0}

\* every client of a domain that the cache or a call holds
Clients(domain) ==
  ({CachedService(domain)}
   \cup {calls[i].service : i \in {j \in 1..Len(calls) :
                                    Handler(calls[j].name).domain = domain}})
  \ {NoService}

\* C9 as stated: while no authenticate call is made, the lazy paths build
\* the credential at most once and each client at most once, also when
\* several calls find the cache empty at the same time.
C9_OneCredentialOneClientPerType ==
  (\A i \in 1..Len(calls) : calls[i].name # "authenticate")
  => /\ Cardinality(Credentials) <= 1
     /\ \A domain \in {"meet", "gmail", "docs"} :
          Cardinality(Clients(domain)) <= 1

\* C10: the step in which an authenticate call succeeds replaces the cached
\* credential and all three cached clients together: the credential is the
\* one the call obtained, not the one cached before, and each client is a
\* new instance bound to it; no step of an authenticate call changes one of
\* the four and leaves another.
C10_AtomicReplacement ==
  [][\A i \in 1..Len(calls) :
       (calls[i].name = "authenticate" /\ calls'[i] # calls[i])
       => IF calls'[i].pc = "done" /\ ~calls'[i].resp.isError
            THEN /\ authInstance' # 0
                 /\ authInstance' # authInstance
                 /\ authInstance' = calls'[i].auth
                 /\ \A svc \in {meetService', gmailService', docsService'} :
                      /\ svc.auth = authInstance'
                      /\ svc.id >= nextId
                      /\ svc \notin {meetService, gmailService, docsService}
                 /\ Cardinality({meetService'.id, gmailService'.id,
                                 docsService'.id}) = 3
            ELSE Cache' = Cache]_vars

C10_Witness ==
  \E i \in Done :
    /\ calls[i].name = "authenticate"
    /\ ~calls[i].resp.isError
    /\ calls[i].pre.auth # 0
    /\ authInstance = calls[i].auth
    /\ authInstance # calls[i].pre.auth
    /\ InFlight # {}

\* the clients the cache holds
CachedClients == {meetService, gmailService, docsService} \ {NoService}

\* C11 as stated: in every reachable state every cached client is bound to
\* the credential the cache holds, also when a lazy client initialisation
\* that already has the old credential is interleaved with a
\* re-authentication that swaps in a new one.
C11_ClientsBoundToCachedCredential ==
  \A svc \in CachedClients : svc.auth = authInstance

\* C12: once a credential is cached no step clears it, and the step in
\* which an authenticate call fails leaves the cached credential and the
\* three cached clients as they were.
C12_NeverBackToUnauthenticated ==
  [][/\ authInstance # 0 => authInstance' # 0
     /\ \A i \in 1..Len(calls) :
          (/\ calls[i].name = "authenticate"
           /\ calls[i].pc # "done"
           /\ calls'[i].pc = "done"
           /\ calls'[i].resp.isError)
          => Cache' = Cache]_vars

C12_Witness ==
  \E i \in Done :
    /\ calls[i].name = "authenticate"
    /\ calls[i].resp.isError
    /\ StartsWith(Text(calls[i].resp), "[X] Authentication failed: ")
    /\ calls[i].pre.auth # 0
    /\ authInstance = calls[i].pre.auth
    /\ \A svc \in CachedClients : svc.auth = authInstance
    /\ CachedClients # {}

\* the calls that take part in the step: the one that arrives or moves on
Stepping(i) == i > Len(calls) \/ calls'[i] # calls[i]

\* C13: when calls are served one at a time, a step of a Meet, Mail or Docs
\* call changes no cached client of another domain; a call that finds the
\* client of its domain cached runs with that instance, builds nothing and
\* does not call authenticate(); and a call that arrived with the
\* credential cached keeps it and does not call authenticate().
C13_LazyCreationAndReuse ==
  [][\A i \in 1..Len(calls') :
       (Stepping(i) /\ Handler(calls'[i].name).domain \in {"meet", "gmail", "docs"})
       => LET d == Handler(calls'[i].name).domain IN
            /\ \A e \in {"meet", "gmail", "docs"} \ {d} :
                 CachedService(e)' = CachedService(e)
            /\ calls'[i].pre.auth # 0
                 => /\ authInstance' = authInstance
                    /\ authInstance = calls'[i].pre.auth
                    /\ calls'[i].await = NoAwait
                    /\ calls'[i].auth \in {0, authInstance}
            /\ CachedService(d) # NoService
                 => /\ Cache' = Cache
                    /\ nextId' = nextId
                    /\ calls'[i].service = CachedService(d)
                    /\ calls'[i].service.auth = authInstance]_vars

C13_Witness ==
  /\ Len(calls) = 2
  /\ calls[1].name = "gmail_profile"
  /\ calls[2].name = "list_emails"
  /\ Done = {1, 2}
  /\ calls[2].pre.auth # 0
  /\ calls[2].service = calls[1].service
  /\ calls[2].service = gmailService
  /\ gmailService # NoService
  /\ gmailService.auth = authInstance
  /\ meetService = NoService
  /\ docsService = NoService
  /\ ~calls[2].resp.isError

\* the largest limit the tool's description allows
MaxLimit(name) ==
  IF name \in {"list_conferences", "list_upcoming_meetings",
               "list_past_meetings"} THEN 100 ELSE 50

\* C14: for each of the seven tools with a limit, a limit above the tool's
\* maximum (100 for the Meet listings, 50 for the Mail and Docs ones) or
\* below 1 fails validation and no client operation is invoked; a limit
\* within the range is the value passed to the client; and arguments
\* without a limit pass 10 to the client.
C14_LimitBoundsAndDefault ==
  \A i \in 1..Len(calls) :
    calls[i].name \in LimitTools
    => LET c == calls[i]
           given == "limit" \in DOMAIN c.args.fields
           called == Count(c.steps, "call") > 0
       IN /\ (given /\ (c.args.fields["limit"].n > MaxLimit(c.name)
                         \/ c.args.fields["limit"].n < 1))
               => /\ ~called
                  /\ c.pc # "upstream"
                  /\ c.pc = "done" => c.resp.isError
                  /\ (c.pc = "done" /\ c.service # NoService)
                       => Contains(Text(c.resp), "limit: Number must be ")
          /\ (given /\ c.args.fields["limit"].n <= MaxLimit(c.name)
                    /\ c.args.fields["limit"].n >= 1 /\ c.service # NoService)
               => /\ called
                  /\ "limit" \in DOMAIN c.params
                  /\ c.params["limit"] = c.args.fields["limit"]
          /\ (~given /\ c.service # NoService)
               => /\ called
                  /\ "limit" \in DOMAIN c.params
                  /\ c.params["limit"] = Num(10)

C14_Witness ==
  \E i \in Done :
       /\ calls[i].name = "list_emails"
       /\ "limit" \notin DOMAIN calls[i].args.fields
       /\ "limit" \in DOMAIN calls[i].params
       /\ calls[i].params["limit"] = Num(10)
       /\ ~calls[i].resp.isError

\* the hour and the minute of the start times of the accepted forms, all of
\* them on 2026-01-30
StartClock ==
  [t \in {"2026-01-30 00:00", "2026-01-30 09:05", "2026-01-30 14:00",
          "2026-01-30 23:30", "2026-01-30T14:00:00", "2026-01-30T23:59:00"} |->
     CASE t = "2026-01-30 00:00" -> [h |-> 0, m |-> 0]
       [] t = "2026-01-30 09:05" -> [h |-> 9, m |-> 5]
       [] t \in {"2026-01-30 14:00", "2026-01-30T14:00:00"} -> [h |-> 14, m |-> 0]
       [] t = "2026-01-30 23:30" -> [h |-> 23, m |-> 30]
       [] t = "2026-01-30T23:59:00" -> [h |-> 23, m |-> 59]]

\* the date-time `minutes` after midnight of 2026-01-30, for less than two days
DateTimeAfter(minutes) ==
  (IF minutes < 1440 THEN "2026-01-30" ELSE "2026-01-31")
  \o "T" \o (IF (minutes % 1440) \div 60 < 10 THEN "0" ELSE "")
  \o ToString((minutes % 1440) \div 60)
  \o ":" \o (IF minutes % 60 < 10 THEN "0" ELSE "") \o ToString(minutes % 60)
  \o ":00"

\* C15 as stated: a create_calendar_event call without end_time sends an
\* end that is duration_minutes (60 when not given) after the start, for
\* every start time in 'YYYY-MM-DD HH:mm' or ISO form and every duration in
\* [5, 480]; the start '2026-01-30 14:00' gives the end '2026-01-30T15:00:00'.
C15_EndIsStartPlusDuration ==
  \A i \in 1..Len(calls) :
    (/\ calls[i].name = "create_calendar_event"
     /\ calls[i].event # NoEvent
     /\ "end_time" \notin DOMAIN calls[i].args.fields
     /\ calls[i].args.fields["start_time"].v \in DOMAIN StartClock)
    => LET f == calls[i].args.fields
           clock == StartClock[f["start_time"].v]
           duration == IF "duration_minutes" \in DOMAIN f
                         THEN f["duration_minutes"].n ELSE 60
       IN /\ calls[i].event.start = DateTimeAfter(clock.h * 60 + clock.m)
          /\ calls[i].event.end =
               DateTimeAfter(clock.h * 60 + clock.m + duration)

\* the places in an upstream response of the events with a join link or
\* with Google Meet conference data
MeetPlaces(items) ==
  {p \in 1..Len(items) :
     items[p].hangoutLink # "" \/ items[p].solution = "Google Meet"}

\* C16: list_upcoming_meetings and list_past_meetings with limit n return
\* at most n events, each with a join link or with Google Meet conference
\* data, and they are the first such events of the upstream response, in
\* the order of the response.
C16_FirstMeetEventsUpToLimit ==
  \A i \in Done :
    (/\ calls[i].name \in {"list_upcoming_meetings", "list_past_meetings"}
     /\ Count(calls[i].steps, "format") > 0)
    => LET n == calls[i].params["limit"].n
           items == calls[i].items
           listed == calls[i].listed
           places == MeetPlaces(items)
       IN /\ n \in 1..100
          /\ Len(listed) <= n
          /\ Len(listed) = IF Cardinality(places) < n THEN Cardinality(places)
                           ELSE n
          /\ \A k \in 1..Len(listed) :
               /\ listed[k].hangoutLink # "" \/ listed[k].solution = "Google Meet"
               /\ listed[k].id \in places
               /\ listed[k] = items[listed[k].id]
               /\ Cardinality({q \in places : q <= listed[k].id}) = k

C16_Witness ==
  \E i \in Done :
    /\ calls[i].name = "list_upcoming_meetings"
    /\ Count(calls[i].steps, "format") > 0
    /\ calls[i].params["limit"].n = 1
    /\ Len(calls[i].items) = 3
    /\ calls[i].items[1].solution = "Zoom"
    /\ calls[i].items[2].solution = "Google Meet"
    /\ calls[i].items[3].hangoutLink # ""
    /\ calls[i].listed = << calls[i].items[2] >>
    /\ ~calls[i].resp.isError

\* the auth_status calls so far
StatusCalls == {i \in 1..Len(calls) : calls[i].name = "auth_status"}

\* no authenticate call came between the two calls, and none before them
\* opened a sign-in flow that may still write the token file
NoInterveningAuthenticate(i, j) ==
  \A k \in 1..(j - 1) :
    calls[k].name = "authenticate" => (k < i /\ calls[k].await.k # "server")

\* two auth_status calls with no authenticate in between gave the same text,
\* each in a success envelope
SameStatusTwice ==
  \A i, j \in StatusCalls :
    (i < j /\ NoInterveningAuthenticate(i, j))
    => /\ calls[i].pc = "done" /\ calls[j].pc = "done"
       /\ ~calls[i].resp.isError /\ ~calls[j].resp.isError
       /\ Len(calls[i].resp.content) = 1 /\ Len(calls[j].resp.content) = 1
       /\ Text(calls[i].resp) = Text(calls[j].resp)

AllEffects(c) ==
  LET ops == UpstreamRequests(c)
  IN SelectSeq([k \in 1..Len(ops) |-> ops[k].effect], LAMBDA e : e # "")

\* C18: every tool call is all-or-nothing: a call answered with an error
\* envelope has made none of its upstream changes, and a call answered with
\* a success envelope has made all of them; create_doc with content never
\* reports failure while the document has been created.
C18_AllOrNothing ==
  \A i \in Done \cap Gated :
    /\ calls[i].resp.isError => calls[i].effects = <<>>
    /\ Count(calls[i].steps, "format") > 0 =>
         calls[i].effects = AllEffects(calls[i])

\* the refused calls whose handler ran validateInput
Invalidated == {i \in Done \cap Refused : Count(calls[i].steps, "validate") > 0}

\* C19: a validation failure is surfaced verbatim by the dispatcher: the
\* error envelope of a call with schema-invalid arguments carries exactly the
\* validator's aggregated message, and handleToolCall returned that envelope
\* itself instead of throwing to the request handler's catch clause.
C19_ValidationSurfacedVerbatim ==
  \A i \in Invalidated :
    /\ calls[i].resp.isError
    /\ Text(calls[i].resp) =
         validateInput(Handler(calls[i].name).schema, calls[i].args).message
    /\ ~calls[i].result.threw

\* the calls that await an upstream request
Awaiting == {i \in 1..Len(calls) : calls[i].pc = "upstream"}

\* the request the call awaits fails in this step
FailsNow(i) ==
  /\ calls'[i].pc = "done"
  /\ calls'[i].resp.isError
  /\ calls'[i].steps = calls[i].steps
  /\ calls'[i].op = calls[i].op
  /\ calls'[i].effects = calls[i].effects

\* the request the call awaits answers in this step: the next request is
\* issued, or the success envelope is returned
AnswersNow(i) ==
  \/ /\ calls'[i].pc = "upstream"
     /\ calls'[i].op = calls[i].op + 1
     /\ calls'[i].op <= Len(UpstreamRequests(calls'[i]))
     /\ calls'[i].steps = calls[i].steps \o <<"call">>
  \/ /\ calls'[i].pc = "done"
     /\ ~calls'[i].resp.isError
     /\ calls'[i].op = calls[i].op
     /\ calls'[i].steps = calls[i].steps \o <<"format">>

\* C20: no client operation retries: every step of a call that awaits an
\* upstream request either issues the next request of the call (each request
\* is issued once, in order) or ends the call; when the request fails the
\* call ends at once, without issuing another request, with an error
\* envelope whose text has "Failed to <operation>: " for every operation
\* around the request and ends with the innermost one followed by the
\* upstream detail.
C20_NoRetryFailureSurfaces ==
  [][\A i \in Awaiting :
       calls'[i] # calls[i] =>
         LET ops == UpstreamRequests(calls[i])
             ws == ops[calls[i].op].wrappers
             text == Text(calls'[i].resp)
             last == "Failed to " \o ws[Len(ws)] \o ": " \o UpstreamDetail
         IN \/ AnswersNow(i)
            \/ /\ FailsNow(i)
               /\ \A k \in 1..Len(ws) :
                    Contains(text, "Failed to " \o ws[k] \o ": ")
               /\ Len(text) >= Len(last)
               /\ SubSeq(text, Len(text) - Len(last) + 1, Len(text)) = last]_vars

\* a mail list whose getMessage request failed after messages.list answered
C20_Witness ==
  \E i \in Done :
    /\ calls[i].name = "list_emails"
    /\ calls[i].op = 2
    /\ calls[i].resp.isError
    /\ Text(calls[i].resp) = "Error: Failed to list messages: " \o
         "Failed to get message: Request failed with status code 500"

\* the names the router's switch has a case for
Routed == {cases[k] : k \in 1..Len(cases)}

\* the catalogued names are pairwise distinct, each has a case and a
\* handler, every case is catalogued, and an uncatalogued name has none
CatalogMatchesRouter ==
  /\ \A j, k \in 1..Len(tools) : tools[j] = tools[k] => j = k
  /\ \A n \in ToolNames : n \in Routed /\ Handler(n).domain # "unknown"
  /\ \A n \in Routed : n \in ToolNames
  /\ \A n \in UnknownNames : Handler(n).domain = "unknown"

\* C21: the catalog and the dispatcher agree: the catalogued names are
\* pairwise distinct, the router has a case with a handler for every
\* catalogued name, every name the router has a case for is catalogued, and
\* no call of a catalogued tool is answered "Unknown tool".
C21_CatalogAndDispatcherAgree ==
  /\ CatalogMatchesRouter
  /\ \A i \in Done :
       calls[i].name \in ToolNames =>
         ~StartsWith(Text(calls[i].resp), "Unknown tool: ")

\* the last tool of the catalog has been served by its handler
C21_Witness ==
  \E i \in Done :
    /\ calls[i].name = tools[Len(tools)]
    /\ calls[i].name = "replace_in_doc"
    /\ ~calls[i].resp.isError
    /\ Text(calls[i].resp) = "[OK] Text replaced in document!"

\* a credential can be had without the user: a service-account file, or an
\* OAuth client file together with a saved token
NonInteractiveSource ==
  \/ credentialsFile = "service_account"
  \/ credentialsFile = "oauth" /\ tokenFile = "valid"

\* the call that arrives in this step calls authenticate(): from the
\* authenticate tool, or from ensureAuth
CallsAuthenticate ==
  /\ Len(calls') = Len(calls) + 1
  /\ calls'[Len(calls')].pc \in {"authenticate", "ensureAuth"}

\* C22: whenever a non-interactive credential source exists, authenticate()
\* yields a credential without the user, from the authenticate tool and
\* from ensureAuth alike: its promise is resolved with a new credential, no
\* callback listener is made and nothing waits for a callback.
C22_NoInteractionWhenSourceExists ==
  [][(CallsAuthenticate /\ NonInteractiveSource) =>
       LET c == calls'[Len(calls')] IN
         /\ c.await.k = "value"
         /\ c.await.cred # 0
         /\ servers' = servers
         /\ ~crashed']_vars

\* with an OAuth client file and a saved token, the authenticate tool and a
\* Mail tool that arrived while nothing was cached both got their credential
C22_Witness ==
  \E i, j \in Done :
    /\ calls[i].name = "authenticate"
    /\ calls[j].name = "gmail_profile"
    /\ \A k \in {i, j} :
         /\ calls[k].pre.auth = 0
         /\ calls[k].pre.credentials = "oauth"
         /\ calls[k].pre.token = "valid"
         /\ calls[k].await.k = "value"
    /\ ~calls[i].resp.isError
    /\ servers = <<>>

\* the interactive flows that have yielded their credential
Yielded == {k \in 1..Len(servers) : servers[k].settled = "resolved"}

\* C23: whenever the interactive flow has yielded a credential, the token
\* file has been written before: from then on isAuthenticated() is true and
\* auth_status reports the authenticated state.
C23_TokenPersistedBeforeYield ==
  Yielded # {} =>
    /\ tokenFile = "valid"
    /\ isAuthenticated
    /\ getAuthStatus = "[OK] Authenticated with Google (OAuth)"

\* the listeners whose promise has settled
Settled == {k \in 1..Len(servers) : servers[k].settled # "pending"}

\* C24: the callback listener is shut down on every exit path of the
\* interactive flow: once its promise has settled, resolved or rejected, the
\* listener holds the callback port no longer.
C24_ListenerClosedWhenSettled ==
  \A k \in Settled : ~servers[k].listening

\* the document holds no paragraph text: no body, no content, or no
\* paragraph with a text run that has content
NoParagraphText(doc) ==
  \/ ~doc.hasBody
  \/ ~doc.hasContent
  \/ \A k \in 1..Len(doc.content) :
       \/ doc.content[k].kind # "paragraph"
       \/ \A r \in 1..Len(doc.content[k].runs) : doc.content[k].runs[r] = ""

\* the get_doc calls whose two reads of the document were answered
DocsRead == {i \in Done : calls[i].name = "get_doc"
                           /\ Count(calls[i].steps, "format") > 0}

\* C25: get_doc on a document that holds no paragraph text is answered with
\* a success envelope that contains "(Empty document)", never with an
\* error envelope.
C25_EmptyDocumentIndicator ==
  \A i \in DocsRead :
    NoParagraphText(calls[i].doc) =>
      /\ ~calls[i].resp.isError
      /\ Contains(Text(calls[i].resp), "(Empty document)")

\* get_doc read a document made of a section break and a table
C25_Witness ==
  \E i \in DocsRead :
    /\ calls[i].doc = Doc(TRUE, TRUE, << SectionBreak(1), Table(9) >>)
    /\ Contains(Text(calls[i].resp), "(Empty document)")

\* the create_calendar_event calls that sent an event upstream
EventsSent == {i \in 1..Len(calls) : calls[i].name = "create_calendar_event"
                                      /\ calls[i].event # NoEvent}

\* C26: a create_calendar_event call whose arguments give no timezone sends
\* "Asia/Kolkata" as the time zone of the start and of the end of the event,
\* and no call sends the client's own fallback zone "America/Los_Angeles".
C26_SchemaZoneNeverClientFallback ==
  \A i \in EventsSent :
    /\ "timezone" \notin DOMAIN calls[i].args.fields =>
         calls[i].event.timeZone = "Asia/Kolkata"
    /\ calls[i].event.timeZone # "America/Los_Angeles"

\* the texts the parts carry, by their place in payload.parts
PartTexts == << "One", "Two?", "<b>3</b>", "4 >> 5?", "~~~" >>

\* the get_email calls that were answered with a message
MessagesRead == {i \in Done : calls[i].name = "get_email"
                               /\ Count(calls[i].steps, "format") > 0}

\* the part at place k is text/plain and carries data
PlainWithData(m, k) ==
  m.parts[k].mimeType = "text/plain" /\ m.parts[k].data # ""

\* the body get_email showed is the text of the part at place k
ShowsPart(i, k) ==
  Text(calls[i].resp) = EmailHead \o PartTexts[((k - 1) % Len(PartTexts)) + 1]

\* C27: getMessageBody selects the body by a fixed preference: the top-level
\* body when it has data; otherwise the first text/plain part that has data,
\* even after earlier parts of another type; otherwise the first part that
\* has data; otherwise the empty string.  The data is base64url-decoded.
C27_BodyPreference ==
  \A i \in MessagesRead :
    LET m == calls[i].items[1]
        places == 1..Len(m.parts)
    IN /\ m.body = "VG9w" => Text(calls[i].resp) = EmailHead \o "Top"
       /\ (m.body = "" /\ m.hasParts) =>
            /\ \A k \in places :
                 (PlainWithData(m, k)
                  /\ \A j \in 1..(k - 1) : ~PlainWithData(m, j))
                 => ShowsPart(i, k)
            /\ \A k \in places :
                 (/\ \A j \in places : ~PlainWithData(m, j)
                  /\ m.parts[k].data # ""
                  /\ \A j \in 1..(k - 1) : m.parts[j].data = "")
                 => ShowsPart(i, k)
            /\ (\A k \in places : m.parts[k].data = "")
                 => Text(calls[i].resp) = EmailHead
       /\ (m.body = "" /\ ~m.hasParts) => Text(calls[i].resp) = EmailHead

\* a message whose first part is HTML with data and whose second part is
\* plain text: get_email shows the second
C27_Witness ==
  \E i \in MessagesRead :
    /\ calls[i].items[1] =
         Message("", TRUE, << [mimeType |-> "text/html", data |-> "T25l"],
                              [mimeType |-> "text/plain", data |-> "VHdvPw"] >>)
    /\ Text(calls[i].resp) = EmailHead \o "Two?"

\* C28: a call of a tool other than authenticate never starts the
\* interactive flow: whatever the credentials file and the token file hold,
\* its ensureAuth gets a credential without the user or fails; it makes no
\* callback listener and does not wait for a callback.
C28_LazyPathNeverInteractive ==
  [][(Len(calls') = Len(calls) + 1
      /\ calls'[Len(calls')].name # "authenticate")
     => /\ servers' = servers
        /\ calls'[Len(calls')].await.k # "server"]_vars

\* the appends to the document the model keeps whose batchUpdate is
\* answered in this step
Inserting ==
  {i \in 1..Len(calls) : InsertsText(calls[i])
                          /\ calls'[i].effects # calls[i].effects}

\* C29: append_to_doc inserts its text at the end of the document as the
\* document is at the moment of the insertion: under every interleaving of
\* appends to one document, the index of the insertion is the index of the
\* document's final newline, and the text comes after all earlier content.
C29_AppendAtCurrentEnd ==
  [][\A i \in Inserting :
       /\ getDocumentEndIndex(calls[i].doc)
            = getDocumentEndIndex(DocumentOf(document))
       /\ document' = document \o calls[i].params["text"].v]_vars

\* the calls of a tool that requires no argument whose request left the
\* arguments out and whose handler reached validateInput
OmittedValidated ==
  {i \in Done : /\ calls[i].name \in NoRequiredArgument
                /\ ~calls[i].args.given
                /\ Count(calls[i].steps, "validate") > 0}

\* C30: for every tool that requires no argument, a call whose arguments
\* are left out behaves like a call with an empty arguments mapping: it
\* passes validation and the handler works with the schema's defaults.
C30_OmittedArgumentsAsEmpty ==
  \A i \in OmittedValidated :
    /\ ~StartsWith(Text(calls[i].resp), "Error: Invalid input")
    /\ calls[i].params =
         ParsedData(Handler(calls[i].name).schema, Args(EmptyFields))

====
